---- MODULE Spec2Model ----
(***************************************************************************)
(* Model of the BMW ISTA downloader: the page extractor, the categorizer,  *)
(* the version extractor, the update decision, the metadata store, the     *)
(* download executor with its file names, and the update orchestrator.     *)
(* The repository holds two                                                *)
(* programs with the same pipeline: src/index.js (class BMWDownloader,     *)
(* scheduled by node-cron) and src/unnamed/part_000 (class                 *)
(* BMWISTADownloader, scheduled by a while loop).  The variable prog says  *)
(* which of the two is running.                                            *)
(*                                                                         *)
(* JavaScript strings that the code inspects (titles, urls, versions) are  *)
(* sequences of one-character strings, so that includes(), toLowerCase()   *)
(* and the regular expressions of extractVersion are computed.             *)
(***************************************************************************)
EXTENDS Integers, Sequences, FiniteSets, TLC

VARIABLES
  prog,        \* "index_js" or "part_000": the program that runs
  catIn,       \* categorizer: the candidate list handed to categorizeDownloads
  catApp,      \* categorizer: the appType argument
  catOut,      \* categorizer: the returned object
  catDone,     \* categorizer: categorizeDownloads has returned
  verIn,       \* version extractor: the url argument
  verOut,      \* version extractor: the returned string
  verDone,     \* version extractor: extractVersion has returned
  extIn,       \* extractor: the page that the browser shows
  extOut,      \* extractor: the candidates found and what the pass returned
  extDone,     \* extractor: findDownloads / getDownloads has returned
  nameIn,      \* file name: the download and the name the transfer suggests
  nameOut,     \* file name: the fileName and filePath that downloadFile uses
  nameDone,    \* file name: the name has been derived
  remote,      \* the candidates each application page shows
  metadata,    \* this.metadata
  disk,        \* metadata.json
  files,       \* the files of the download directory: path -> size
  isLoggedIn,  \* this.isLoggedIn
  browser,     \* this.browser: "open" or "closed"
  sched,       \* src/index.js: "none", "cron" or "onetime"; "exited" after process.exit
  started,     \* number of update cycles started
  cyc,         \* the checkForUpdates calls, by cycle number
  decisions,   \* the isNewVersion decisions of the latest extraction pass
  lastCall,    \* how the latest downloadFile call ended
  lastPut      \* metadata store: the latest updateMetadata call

extVars == <<extIn, extOut, extDone>>
nameVars == <<nameIn, nameOut, nameDone>>
pureVars == <<catIn, catApp, catOut, catDone, verIn, verOut, verDone, extVars, nameVars>>
orchVars == <<remote, files, isLoggedIn, browser, sched, started, cyc, decisions, lastCall>>
storeVars == <<metadata, disk, lastPut>>
vars == <<prog, pureVars, orchVars, storeVars>>

Progs == {"index_js", "part_000"}
Apps == {"ista-p", "ista-next"}

(***************************************************************************)
(* String constants of the code and of the pages.                          *)
(***************************************************************************)
n_installationsprogramm == <<"i","n","s","t","a","l","l","a","t","i","o","n","s","p","r","o","g","r","a","m","m">>
n_installationsdatei == <<"i","n","s","t","a","l","l","a","t","i","o","n","s","d","a","t","e","i">>
n_istaoss == <<"i","s","t","a","o","s","s">>
n_bdrclient == <<"b","d","r","c","l","i","e","n","t">>
n_datenarchiv == <<"d","a","t","e","n","a","r","c","h","i","v">>
n_commondat == <<"c","o","m","m","o","n","d","a","t">>
n_istapdata == <<".","i","s","t","a","p","d","a","t","a">>
n_ista_p == <<"i","s","t","a","-","p">>
n_programmierdaten == <<"p","r","o","g","r","a","m","m","i","e","r","d","a","t","e","n">>
n_programmingdata == <<"p","r","o","g","r","a","m","m","i","n","g","d","a","t","a">>
n_ISTAOSS_ProgrammingData_ == <<"I","S","T","A","O","S","S","_","P","r","o","g","r","a","m","m","i","n","g","D","a","t","a","_">>
n_client == <<"c","l","i","e","n","t">>
n_zip == <<".","z","i","p">>
n_icom == <<"i","c","o","m">>
n_firmware == <<"f","i","r","m","w","a","r","e">>
n_ICOM_Next_FW == <<"I","C","O","M","-","N","e","x","t","-","F","W">>
n_fw == <<"f","w">>
n_ptd == <<"p","t","d">>
n_treiber == <<"t","r","e","i","b","e","r">>
n_passthru == <<"p","a","s","s","t","h","r","u">>
n_exe == <<".","e","x","e">>
n_msi == <<".","m","s","i">>
n_bin == <<".","b","i","n">>
n_iso == <<".","i","s","o">>
s_unknown == <<"u","n","k","n","o","w","n">>
s_download == <<"d","o","w","n","l","o","a","d">>
UrlBase == <<"h","t","t","p","s",":","/","/","a","o","s","/","d","l","/">>
t_client == <<"I","n","s","t","a","l","l","a","t","i","o","n","s","d","a","t","e","i"," ","I","S","T","A"," ","C","l","i","e","n","t">>
u_client == <<"I","S","T","A","O","S","S","_","1",".","2",".","3",".","4",".","z","i","p">>
t_client2 == <<"I","S","T","A"," ","C","l","i","e","n","t"," ","U","p","d","a","t","e">>
u_client2 == <<"I","S","T","A","O","S","S","_","1",".","2",".","3",".","5",".","z","i","p">>
t_icom == <<"I","C","O","M"," ","N","e","x","t"," ","F","i","r","m","w","a","r","e">>
u_icom == <<"I","C","O","M","-","N","e","x","t","-","F","W","-","4",".","5",".","6",".","b","i","n">>
t_progdata == <<"I","S","T","A"," ","P","r","o","g","r","a","m","m","i","e","r","d","a","t","e","n">>
t_generic == <<"D","o","w","n","l","o","a","d">>
u_progdata == <<"I","S","T","A","O","S","S","_","P","r","o","g","r","a","m","m","i","n","g","D","a","t","a","_","4",".","5","3",".","3","0",".","z","i","p">>
t_ptd == <<"B","M","W"," ","P","T","D","-","T","r","e","i","b","e","r">>
u_ptd == <<"P","a","s","s","T","h","r","u","_","0","4","-","2","5","-","1","0",".","e","x","e">>
t_installer == <<"I","n","s","t","a","l","l","a","t","i","o","n","s","p","r","o","g","r","a","m","m"," ","I","S","T","A","/","P">>
u_installer == <<"B","D","R","C","l","i","e","n","t",".","e","x","e">>
u_installer100 == <<"B","D","R","C","l","i","e","n","t","_","1",".","0",".","0",".","e","x","e">>
t_archive == <<"D","a","t","e","n","a","r","c","h","i","v"," ","I","S","T","A","/","P">>
u_archive == <<"C","o","m","m","o","n","D","a","t","_","3",".","7","4",".","0",".","9","3","0",".","i","s","t","a","p","d","a","t","a">>
t_terms == <<"N","u","t","z","u","n","g","s","b","e","d","i","n","g","u","n","g","e","n">>
u_terms == <<"t","e","r","m","s",".","h","t","m","l">>
v_100 == <<"1",".","0",".","0">>
v_099 == <<"0",".","9",".","9">>
UpperChars == <<"A","B","C","D","E","F","G","H","I","J","K","L","M","N","O","P","Q","R","S","T","U","V","W","X","Y","Z">>
LowerChars == <<"a","b","c","d","e","f","g","h","i","j","k","l","m","n","o","p","q","r","s","t","u","v","w","x","y","z">>

(***************************************************************************)
(* String primitives.                                                      *)
(***************************************************************************)
Digits == {"0","1","2","3","4","5","6","7","8","9"}

\* String.prototype.toLowerCase on one character
LowerChar(c) ==
  IF \E i \in 1..Len(UpperChars) : UpperChars[i] = c
  THEN LowerChars[CHOOSE i \in 1..Len(UpperChars) : UpperChars[i] = c]
  ELSE c

\* Mutation of toLowerCase: the string is compared as it is written.
toLowerCaseIdentity(s) == s

toLowerCase(s) == [i \in 1..Len(s) |-> LowerChar(s[i])]

\* String.prototype.includes
includes(s, needle) ==
  \E i \in 0..(Len(s) - Len(needle)) : SubSeq(s, i + 1, i + Len(needle)) = needle

(***************************************************************************)
(* extractVersion: three regular expressions tried in order, the first     *)
(* match's capture returned.                                               *)
(***************************************************************************)
\* \d+ at position i: the position after the longest digit run, 0 if none.
\* (\d+ is greedy; giving back digits never helps, since the next pattern
\* character is a separator and the next string character would be a digit.)
RECURSIVE DigitRunEnd(_, _)
DigitRunEnd(s, i) ==
  IF i <= Len(s) /\ s[i] \in Digits
  THEN LET e == DigitRunEnd(s, i + 1) IN IF e = 0 THEN i + 1 ELSE e
  ELSE 0

\* \d+ (sep \d+){n-1} at position i: the position after the match, 0 if none
RECURSIVE MatchGroupsAt(_, _, _, _)
MatchGroupsAt(s, i, n, sep) ==
  LET e == DigitRunEnd(s, i) IN
  IF e = 0 THEN 0
  ELSE IF n = 1 THEN e
  ELSE IF e <= Len(s) /\ s[e] = sep THEN MatchGroupsAt(s, e + 1, n - 1, sep)
  ELSE 0

\* Mutation of patterns: the three-part dotted pattern is tried first.
patternsThreePartFirst ==
  << [n |-> 3, sep |-> "."], [n |-> 4, sep |-> "."], [n |-> 3, sep |-> "-"] >>

\* the patterns array of extractVersion: number of groups, separator
patterns == << [n |-> 4, sep |-> "."], [n |-> 3, sep |-> "."], [n |-> 3, sep |-> "-"] >>

\* url.match(pattern): the leftmost match's capture, or <<>> for null
\* (a match is never empty)
RegexMatch(s, p) ==
  LET starts == { i \in 1..Len(s) : MatchGroupsAt(s, i, p.n, p.sep) # 0 } IN
  IF starts = {} THEN <<>>
  ELSE LET i == CHOOSE x \in starts : \A y \in starts : x <= y
       IN SubSeq(s, i, MatchGroupsAt(s, i, p.n, p.sep) - 1)

RECURSIVE ExtractFrom(_, _, _)
ExtractFrom(url, ps, k) ==
  IF k > Len(ps) THEN s_unknown
  ELSE LET m == RegexMatch(url, ps[k]) IN
       IF m # <<>> THEN m ELSE ExtractFrom(url, ps, k + 1)

extractVersion(url) == ExtractFrom(url, patterns, 1)

(***************************************************************************)
(* categorizeDownloads.                                                    *)
(***************************************************************************)
None == "none"

\* this.downloadCategories: category -> display name, per application
downloadCategories(p, appType) ==
  IF appType = "ista-p" THEN
    IF p = "index_js"
    THEN << <<"installer", "Installationsprogramm ISTA/P">>,
            <<"data_archive", "Datenarchiv ISTA/P">>,
            <<"ptd_driver", "BMW PTD-Treiber">> >>
    ELSE << <<"installer", "Installationsprogramm ISTA/P">>,
            <<"data_archive", "Datenarchiv ISTA/P">> >>
  ELSE IF appType = "ista-next" THEN
    << <<"client", "Installationsdatei ISTA Client">>,
       <<"programming_data", "ISTA Programmierdaten">>,
       <<"icom_firmware", "ICOM Next Firmware">>,
       <<"ptd_driver", "BMW PTD-Treiber">> >>
  ELSE << >>

\* Object.keys(this.downloadCategories[appType] || {})
validCategories(p, appType) ==
  { downloadCategories(p, appType)[i][1] : i \in 1..Len(downloadCategories(p, appType)) }

displayName(p, appType, category) ==
  LET dc == downloadCategories(p, appType)
  IN dc[CHOOSE i \in 1..Len(dc) : dc[i][1] = category][2]

\* the if / else-if cascade of src/index.js; title and url are lower-cased
CategoryOfIndex(title, url, appType, valid) ==
  IF appType = "ista-p" THEN
    IF (includes(title, n_installationsprogramm) \/ includes(url, n_bdrclient)
        \/ includes(title, n_installationsdatei) \/ includes(url, n_istaoss))
       /\ "installer" \in valid
    THEN "installer"
    ELSE IF (includes(title, n_datenarchiv) \/ includes(url, n_commondat)
             \/ includes(url, n_istapdata) \/ includes(title, n_programmierdaten)
             \/ includes(url, n_programmingdata))
            /\ "data_archive" \in valid
    THEN "data_archive"
    ELSE IF (includes(title, n_ptd) \/ includes(title, n_treiber))
            /\ "ptd_driver" \in valid
    THEN "ptd_driver"
    ELSE None
  ELSE IF appType = "ista-next" THEN
    IF (includes(title, n_installationsdatei) \/ includes(title, n_client)
        \/ (includes(url, n_istaoss) /\ includes(url, n_zip)))
       /\ "client" \in valid
    THEN "client"
    ELSE IF (includes(title, n_programmierdaten) \/ includes(url, n_programmingdata))
            /\ "programming_data" \in valid
    THEN "programming_data"
    ELSE IF (includes(title, n_icom) /\ includes(title, n_firmware))
            /\ "icom_firmware" \in valid
    THEN "icom_firmware"
    ELSE IF (includes(title, n_ptd) \/ includes(title, n_treiber))
            /\ "ptd_driver" \in valid
    THEN "ptd_driver"
    ELSE None
  ELSE None

\* the if / else-if cascade of src/unnamed/part_000; title and url are
\* lower-cased, and two needles are written with capital letters
CategoryOfPart(title, url, appType) ==
  IF appType = "ista-p" THEN
    IF includes(title, n_installationsprogramm) \/ includes(title, n_installationsdatei)
       \/ includes(url, n_istaoss) \/ includes(url, n_bdrclient)
    THEN "installer"
    ELSE IF includes(title, n_datenarchiv) \/ includes(url, n_commondat)
            \/ includes(url, n_istapdata)
            \/ (includes(url, n_ista_p) /\ includes(url, n_commondat))
    THEN "data_archive"
    ELSE None
  ELSE IF appType = "ista-next" THEN
    IF includes(title, n_programmierdaten) \/ includes(url, n_ISTAOSS_ProgrammingData_)
    THEN "programming_data"
    ELSE IF includes(title, n_installationsdatei) \/ includes(title, n_client)
            \/ includes(url, n_istaoss) \/ includes(url, n_client)
    THEN "client"
    ELSE IF (includes(title, n_icom) /\ includes(title, n_firmware))
            \/ includes(url, n_ICOM_Next_FW)
            \/ (includes(url, n_icom) /\ includes(url, n_fw))
    THEN "icom_firmware"
    ELSE IF includes(title, n_ptd) \/ includes(title, n_treiber)
            \/ includes(url, n_ptd) \/ includes(url, n_passthru)
    THEN "ptd_driver"
    ELSE None
  ELSE None

\* the category the loop body computes for one download
CategoryOf(p, download, appType) ==
  LET title == toLowerCase(download.title)
      url == toLowerCase(download.url)
  IN IF p = "index_js"
     THEN CategoryOfIndex(title, url, appType, validCategories(p, appType))
     ELSE CategoryOfPart(title, url, appType)

\* categorized[category]: a JavaScript object is modelled as the sequence of
\* its entries in insertion order
HasCategory(categorized, category) ==
  \E i \in 1..Len(categorized) : categorized[i].category = category

\* Mutation of KeepsDownload: a filled category is not kept.
KeepsDownloadAlways(p, categorized, category, appType) ==
  /\ category # None
  /\ (p = "part_000" => category \in validCategories(p, appType))

\* the condition under which the loop body stores the download
KeepsDownload(p, categorized, category, appType) ==
  /\ category # None
  /\ (p = "part_000" => category \in validCategories(p, appType))
  /\ ~HasCategory(categorized, category)

\* Mutation of CategorizedDownload: the version is taken from the title.
CategorizedDownloadTitleVersion(p, download, category, appType) ==
  [ title |-> download.title,
    url |-> download.url,
    method |-> download.method,
    category |-> category,
    appType |-> appType,
    displayName |-> displayName(p, appType, category),
    version |-> extractVersion(download.title) ]

\* { ...download, category, appType, displayName, version }
CategorizedDownload(p, download, category, appType) ==
  [ title |-> download.title,
    url |-> download.url,
    method |-> download.method,
    category |-> category,
    appType |-> appType,
    displayName |-> displayName(p, appType, category),
    version |-> extractVersion(download.url) ]

RECURSIVE CategorizeFrom(_, _, _, _, _)
CategorizeFrom(p, downloads, appType, k, categorized) ==
  IF k > Len(downloads) THEN categorized
  ELSE LET category == CategoryOf(p, downloads[k], appType) IN
       CategorizeFrom(p, downloads, appType, k + 1,
         IF KeepsDownload(p, categorized, category, appType)
         THEN Append(categorized, CategorizedDownload(p, downloads[k], category, appType))
         ELSE categorized)

categorizeDownloads(p, downloads, appType) ==
  CategorizeFrom(p, downloads, appType, 1, << >>)

(***************************************************************************)
(* Metadata store: this.metadata in memory, metadata.json on disk.         *)
(***************************************************************************)
\* undefined, as a value that no JavaScript string equals
Undefined == <<"<undefined>">>

\* metadata.json: absent, a text that JSON.parse rejects, the JSON text
\* null (which JSON.parse accepts), or the JSON text of an object
Missing == [state |-> "missing", text |-> << >>]
Corrupt == [state |-> "corrupt", text |-> << >>]
NotObject == [state |-> "null", text |-> << >>]
DiskFile(text) == [state |-> "ok", text |-> text]

AppOrder == <<"ista-p", "ista-next">>

\* `${appType}_${category}`
MetadataKey(appType, category) == <<appType, category>>

AllKeys ==
  { MetadataKey(a, c) : a \in Apps,
      c \in {"installer", "data_archive", "ptd_driver", "client",
             "programming_data", "icom_firmware"} }

KeyOrder ==
  << <<"ista-p", "installer">>, <<"ista-p", "data_archive">>, <<"ista-p", "ptd_driver">>,
     <<"ista-p", "client">>, <<"ista-p", "programming_data">>, <<"ista-p", "icom_firmware">>,
     <<"ista-next", "installer">>, <<"ista-next", "data_archive">>,
     <<"ista-next", "ptd_driver">>, <<"ista-next", "client">>,
     <<"ista-next", "programming_data">>, <<"ista-next", "icom_firmware">> >>

\* the properties of a stored record, in the order the object literal of
\* downloadFile creates them
RecordFields ==
  <<"title", "url", "method", "category", "appType", "displayName", "version",
    "fileName", "filePath", "fileSize", "downloadedAt">>


\* JSON.stringify(this.metadata, null, 2): the members in key order, each
\* record as its list of properties
RECURSIVE StringifyFrom(_, _)
StringifyFrom(m, k) ==
  IF k > Len(KeyOrder) THEN << >>
  ELSE IF KeyOrder[k] \in DOMAIN m
  THEN << <<KeyOrder[k],
            [i \in 1..Len(RecordFields) |->
               <<RecordFields[i], m[KeyOrder[k]][RecordFields[i]]>>]>> >>
       \o StringifyFrom(m, k + 1)
  ELSE StringifyFrom(m, k + 1)

Stringify(m) == StringifyFrom(m, 1)

\* JSON.parse of a text that Stringify wrote
ParseRecord(props) ==
  [ f \in { props[i][1] : i \in 1..Len(props) } |->
      props[CHOOSE i \in 1..Len(props) : props[i][1] = f][2] ]

ParseJSON(text) ==
  [ key \in { text[i][1] : i \in 1..Len(text) } |->
      ParseRecord(text[CHOOSE i \in 1..Len(text) : text[i][1] = key][2]) ]

EmptyMetadata == [ key \in {} |-> Undefined ]

\* JSON.parse('null'): a value without properties; reading or assigning
\* this.metadata[key] on it throws TypeError
NullMetadata == [ key \in {<<"<null>", "<null>">>} |-> Undefined ]

IsNullMetadata(m) == <<"<null>", "<null>">> \in DOMAIN m

\* loadMetadata: this.metadata = JSON.parse(data); readFile or JSON.parse
\* throwing leaves the empty object
loadMetadata(file) ==
  IF file.state = "null" THEN NullMetadata
  ELSE IF file.state # "ok" THEN EmptyMetadata ELSE ParseJSON(file.text)

\* Mutation of SetMetadata: the mapping is replaced by the one entry.
SetMetadataReplacing(m, key, data) == [ k \in {key} |-> data ]

\* this.metadata[category] = data
SetMetadata(m, key, data) ==
  [ k \in DOMAIN m \cup {key} |-> IF k = key THEN data ELSE m[k] ]

(***************************************************************************)
(* isNewVersion.                                                           *)
(***************************************************************************)
\* this.metadata[key]?.version
LastVersion(m, key) == IF key \in DOMAIN m THEN m[key].version ELSE Undefined

\* !lastVersion
Falsy(v) == v = Undefined \/ v = << >>

\* Mutation of isNewVersion: 'unknown' is tested before the missing record.
isNewVersionUnknownFirst(m, key, version) ==
  IF version = s_unknown THEN FALSE
  ELSE IF Falsy(LastVersion(m, key)) THEN TRUE
  ELSE version # LastVersion(m, key)

\* Mutation of isNewVersion: 'unknown' is compared like any other version.
isNewVersionNoUnknownTest(m, key, version) ==
  IF Falsy(LastVersion(m, key)) THEN TRUE
  ELSE version # LastVersion(m, key)

\* Mutation of isNewVersion: a known version is new without comparison.
isNewVersionNoComparison(m, key, version) ==
  IF Falsy(LastVersion(m, key)) THEN TRUE
  ELSE version # s_unknown

isNewVersion(m, key, version) ==
  IF Falsy(LastVersion(m, key)) THEN TRUE
  ELSE IF version = s_unknown THEN FALSE
  ELSE version # LastVersion(m, key)

(***************************************************************************)
(* Destination file name and path of downloadFile.                         *)
(***************************************************************************)
getFileExtension(p, url) ==
  LET urlLower == toLowerCase(url) IN
  IF includes(urlLower, n_exe) THEN n_exe
  ELSE IF includes(urlLower, n_zip) THEN n_zip
  ELSE IF p = "index_js" /\ includes(urlLower, n_msi) THEN n_msi
  ELSE IF includes(urlLower, n_istapdata) THEN n_istapdata
  ELSE IF p = "index_js" /\ includes(urlLower, n_bin) THEN n_bin
  ELSE IF p = "index_js" /\ includes(urlLower, n_iso) THEN n_iso
  ELSE n_bin

\* a category name as a JavaScript string
CategoryChars(category) ==
  CASE category = "installer" -> <<"i","n","s","t","a","l","l","e","r">>
    [] category = "data_archive" -> <<"d","a","t","a","_","a","r","c","h","i","v","e">>
    [] category = "ptd_driver" -> <<"p","t","d","_","d","r","i","v","e","r">>
    [] category = "client" -> <<"c","l","i","e","n","t">>
    [] category = "programming_data" ->
         <<"p","r","o","g","r","a","m","m","i","n","g","_","d","a","t","a">>
    [] category = "icom_firmware" ->
         <<"i","c","o","m","_","f","i","r","m","w","a","r","e">>

\* `${download.category}${version}${extension}`
GeneratedFileName(p, download) ==
  CategoryChars(download.category)
  \o (IF download.version # s_unknown THEN <<"_">> \o download.version ELSE << >>)
  \o getFileExtension(p, download.url)

\* parts[parts.length - 1] of s.split(sep)
RECURSIVE LastPart(_, _)
LastPart(s, sep) ==
  IF \E i \in 1..Len(s) : s[i] = sep
  THEN LastPart(SubSeq(s, (CHOOSE i \in 1..Len(s) : s[i] = sep) + 1, Len(s)), sep)
  ELSE s

\* s.split(sep)[0]
FirstPart(s, sep) ==
  IF \E i \in 1..Len(s) : s[i] = sep
  THEN SubSeq(s, 1, (CHOOSE i \in 1..Len(s) : s[i] = sep /\ \A j \in 1..(i - 1) : s[j] # sep) - 1)
  ELSE s

\* the file name check shared by both programs
UnusableName(fileName) ==
  fileName = << >> \/ fileName = s_download \/ Len(fileName) < 5

\* src/index.js: the suggested name, else the last url part when it holds a
\* dot, else the generated name
FileNameIndex(download, suggestedFilename) ==
  IF UnusableName(suggestedFilename)
  THEN LET urlFilename == LastPart(download.url, "/") IN
       IF urlFilename # << >> /\ includes(urlFilename, <<".">>)
       THEN urlFilename
       ELSE GeneratedFileName("index_js", download)
  ELSE suggestedFilename

\* src/unnamed/part_000: extractCleanFilename for a url that is neither a
\* portal redirect nor a storage url (no query string, no escapes), else
\* the generated name
extractCleanFilename(url) ==
  LET filename == FirstPart(LastPart(url, "/"), "?") IN
  IF filename # << >> /\ filename # s_download THEN filename ELSE << >>

FileNamePart(download) ==
  LET fileName == extractCleanFilename(download.url) IN
  IF UnusableName(fileName) THEN GeneratedFileName("part_000", download) ELSE fileName

\* path.join(this.downloadDir, subDir, fileName) / path.join(this.downloadDir, fileName)
FilePath(p, download, fileName) ==
  IF p = "index_js"
  THEN <<"downloads", download.appType, fileName>>
  ELSE <<"downloads", fileName>>

\* a record without the measured size and the completion timestamp
UpdateRecordUnmeasured(download, fileName, filePath, size, now) ==
  [ title |-> download.title, url |-> download.url, method |-> download.method,
    category |-> download.category, appType |-> download.appType,
    displayName |-> download.displayName, version |-> download.version,
    fileName |-> fileName, filePath |-> filePath, fileSize |-> 0,
    downloadedAt |-> 0 ]

\* the record that downloadFile hands to updateMetadata
UpdateRecord(download, fileName, filePath, size, now) ==
  [ title |-> download.title, url |-> download.url, method |-> download.method,
    category |-> download.category, appType |-> download.appType,
    displayName |-> download.displayName, version |-> download.version,
    fileName |-> fileName, filePath |-> filePath, fileSize |-> size,
    downloadedAt |-> now ]

\* Mutation of VerifiedSize: an empty file passes.
VerifiedSizeNonNegative(size) == size >= 0

\* stats.size > 0
VerifiedSize(size) == size > 0

(***************************************************************************)
(* Inputs and bounds.                                                      *)
(***************************************************************************)
MaxCands == 3
MaxChunks == 3
MaxCycles == 3
maxRetries == 3

Cycles == 1..MaxCycles

Url(file) == UrlBase \o file

\* candidates as the page evaluation returns them: { title, url, method }
Candidate(title, file) == [title |-> title, url |-> Url(file), method |-> "link_search_main"]

CandidatePool ==
  { Candidate(t_client, u_client), Candidate(t_client2, u_client2),
    Candidate(t_icom, u_icom), Candidate(t_icom, u_client),
    Candidate(t_progdata, u_progdata),
    Candidate(t_generic, u_progdata), Candidate(t_ptd, u_ptd),
    Candidate(t_installer, u_installer), Candidate(t_archive, u_archive),
    Candidate(t_terms, u_terms) }

SeqsUpTo(S, n) == UNION { [1..k -> S] : k \in 0..n }

VersionChunks ==
  { <<"1",".","2",".","3">>, <<"4",".","5","3",".","0",".","9">>,
    <<"0","4","-","2","5","-","1","0">>, <<"_">>, <<".">>, <<"-">>, <<"7">>,
    <<"v","1">> }

RECURSIVE Concat(_)
Concat(ss) == IF ss = << >> THEN << >> ELSE Head(ss) \o Concat(Tail(ss))

\* what the two application pages show during a run: an installer in
\* version 1.0.0 and a client whose url holds no version
PageInstaller == [title |-> <<"S","e","t","u","p">>,
                  url |-> <<"/","i","s","t","a","o","s","s","_">> \o v_100 \o n_exe,
                  method |-> "link_search_main"]
PageClient == [title |-> <<"C","l","i","e","n","t">>,
               url |-> <<"/","i","s","t","a",".","z","i","p">>,
               method |-> "link_search_main"]

Sites ==
  { [a \in Apps |-> IF a = "ista-p" THEN << PageInstaller >> ELSE << PageClient >>] }

\* file sizes that a finished transfer can leave
FileSizes == {0, 7}

\* the file names that the browser's download event can suggest
SuggestedNames == { << >>, <<"d","o","w","n","l","o","a","d">> }

\* the record an earlier run left for a download of version 0.9.9
OldRecord(p, page, appType, category) ==
  LET d == [page EXCEPT !.url = <<"/","o","l","d","_">> \o v_099 \o n_exe]
      download == CategorizedDownload(p, d, category, appType)
      fileName == IF p = "index_js" THEN FileNameIndex(download, << >>)
                  ELSE FileNamePart(download)
  IN UpdateRecord(download, fileName, FilePath(p, download, fileName), 7, 0)

OldMetadata(p) ==
  SetMetadata(
    SetMetadata(EmptyMetadata, MetadataKey("ista-p", "installer"),
                OldRecord(p, PageInstaller, "ista-p", "installer")),
    MetadataKey("ista-next", "client"),
    OldRecord(p, PageClient, "ista-next", "client"))

\* metadata.json and the download directory when the process starts
StartDisks(p) ==
  { [disk |-> Missing, files |-> << >>],
    [disk |-> Corrupt, files |-> << >>],
    [disk |-> DiskFile(Stringify(OldMetadata(p))),
     files |-> [q \in { OldMetadata(p)[k].filePath : k \in DOMAIN OldMetadata(p) } |-> 7]] }

(***************************************************************************)
(* One checkForUpdates call.                                               *)
(***************************************************************************)
NoSize == 0 - 1

\* how a downloadFile call ended: its return value, the size fs.stat
\* measured, whether it called updateMetadata, and its fs.unlink
NoCall == [ret |-> FALSE, size |-> NoSize, wrote |-> FALSE,
           unlinkTried |-> FALSE, unlinkOk |-> FALSE, exists |-> FALSE,
           failedIn |-> "none", attempts |-> 0]

IdleCycle ==
  [ pc |-> "idle", app |-> 1, updates |-> << >>, priors |-> << >>, i |-> 0,
    successCount |-> 0, failCount |-> 0, retry |-> 0,
    fileName |-> << >>, filePath |-> << >>, size |-> NoSize, writing |-> << >>,
    extracted |-> 0, decided |-> 0, abort |-> "none" ]

InDownloadFile == {"dlTransfer", "dlSaved", "dlWrite"}

\* what follows the download loop: src/index.js ends the cycle, part_000
\* goes on with the next application
AfterDownloads(p, inst) ==
  IF p = "part_000" /\ inst.app < Len(AppOrder)
  THEN [inst EXCEPT !.pc = "extract", !.app = @ + 1, !.updates = << >>,
                    !.priors = << >>, !.i = 0]
  ELSE [inst EXCEPT !.pc = "done", !.updates = << >>, !.priors = << >>, !.i = 0]

\* downloadFile returns ok to the download loop, which counts it and goes
\* on with the next update
ReturnFrom(p, inst, ok) ==
  LET counted == [inst EXCEPT !.successCount = IF ok THEN @ + 1 ELSE @,
                              !.failCount = IF ok THEN @ ELSE @ + 1,
                              !.retry = 0, !.fileName = << >>, !.filePath = << >>,
                              !.size = NoSize, !.writing = << >>]
  IN IF inst.i < Len(inst.updates)
     THEN [counted EXCEPT !.pc = "dlNext", !.i = @ + 1]
     ELSE AfterDownloads(p, counted)

\* fs.unlink(path): removes the file; fails when there is none
Unlink(fs, path, ok) ==
  IF ok /\ path \in DOMAIN fs THEN [q \in DOMAIN fs \ {path} |-> fs[q]] ELSE fs

\* a file of that size is at path
WriteFile(fs, path, size) ==
  [q \in DOMAIN fs \cup {path} |-> IF q = path THEN size ELSE fs[q]]

\* a call that ended in an error before the size check; stage names the
\* step that threw, and a failed transfer records the attempts it made
Failed(c, fs, tried, unlinkOk, stage) ==
  /\ cyc' = [cyc EXCEPT ![c] = ReturnFrom(prog, cyc[c], FALSE)]
  /\ lastCall' = [ret |-> FALSE, size |-> NoSize, wrote |-> FALSE,
                  unlinkTried |-> tried, unlinkOk |-> unlinkOk,
                  exists |-> cyc[c].filePath \in DOMAIN fs,
                  failedIn |-> stage,
                  attempts |-> IF stage = "transfer" THEN cyc[c].retry + 1 ELSE 0]

\* the process has not exited
Running == sched # "exited"

\* a checkForUpdates that goes on to the applications after a failed login
LoginContinuing(c) ==
  /\ Running
  /\ cyc[c].pc = "login"
  /\ cyc' = [cyc EXCEPT ![c].pc = "extract"]
  /\ isLoggedIn' \in {isLoggedIn, TRUE}
  /\ UNCHANGED <<prog, pureVars, storeVars, remote, files, browser, sched, started,
                 decisions, lastCall>>

\* if (!this.isLoggedIn) { login } of checkForUpdates
Login(c) ==
  /\ Running
  /\ cyc[c].pc = "login"
  /\ \/ /\ isLoggedIn
        /\ cyc' = [cyc EXCEPT ![c].pc = "extract"]
        /\ UNCHANGED isLoggedIn
     \/ /\ ~isLoggedIn
        /\ isLoggedIn' = TRUE
        /\ cyc' = [cyc EXCEPT ![c].pc = "extract"]
     \/ /\ ~isLoggedIn
        /\ cyc' = [cyc EXCEPT ![c].pc = "done", ![c].abort = "login"]
        /\ UNCHANGED isLoggedIn
  /\ UNCHANGED <<prog, pureVars, storeVars, remote, files, browser, sched, started,
                 decisions, lastCall>>

\* one pass of the decision loop over Object.entries(downloads)
Decision(m, download) ==
  LET key == MetadataKey(download.appType, download.category) IN
  [ key |-> key, version |-> download.version, hadRecord |-> key \in DOMAIN m,
    stored |-> IF key \in DOMAIN m THEN m[key].version ELSE Undefined,
    isNew |-> isNewVersion(m, key, download.version) ]

\* the updates the decision loop pushes
DecidedNew(m, downloads) ==
  LET IsNew(d) == isNewVersion(m, MetadataKey(d.appType, d.category), d.version)
  IN SelectSeq(downloads, IsNew)

\* navigation and extraction of one application, then its decisions:
\* getDownloads (src/index.js), navigateToApplication and findDownloads
\* (part_000).  A failed navigation or extraction yields no downloads; in
\* src/index.js a redirect to the login host also clears isLoggedIn.
Extract(c) ==
  /\ Running
  /\ cyc[c].pc = "extract"
  /\ \E outcome \in {"ok", "failed", "expired"} :
       LET appType == AppOrder[cyc[c].app]
           downloads == IF outcome = "ok"
                        THEN categorizeDownloads(prog, remote[appType], appType)
                        ELSE << >>
           new == DecidedNew(metadata, downloads)
           updates == cyc[c].updates \o new
           inst == [cyc[c] EXCEPT
                      !.updates = updates,
                      !.priors = @ \o [i \in 1..Len(new) |->
                                   MetadataKey(new[i].appType, new[i].category)
                                     \in DOMAIN metadata],
                      !.extracted = IF outcome = "ok" THEN @ + 1 ELSE @,
                      !.decided = @ + Len(new)]
       IN /\ outcome = "expired" => prog = "index_js"
          /\ isLoggedIn' = IF outcome = "expired" THEN FALSE ELSE isLoggedIn
          /\ decisions' = [i \in 1..Len(downloads) |-> Decision(metadata, downloads[i])]
          /\ cyc' = [cyc EXCEPT ![c] =
               IF prog = "index_js" /\ inst.app < Len(AppOrder)
               THEN [inst EXCEPT !.app = @ + 1]
               ELSE IF updates # << >>
               THEN [inst EXCEPT !.pc = "dlNext", !.i = 1]
               ELSE AfterDownloads(prog, inst)]
  /\ UNCHANGED <<prog, pureVars, storeVars, remote, files, browser, sched, started, lastCall>>

\* src/index.js: the catch block of getDownloads takes a screenshot when
\* DEBUG is 'true'; when the page cannot be used that throws as well, and
\* checkForUpdates rejects.  The first call is awaited in the try block of
\* run: cleanup and process.exit(1).  A call from the cron callback leaves
\* an unhandled rejection, which ends the process or is only reported.
ExtractFatal(c) ==
  /\ Running
  /\ prog = "index_js"
  /\ cyc[c].pc = "extract"
  /\ cyc' = [cyc EXCEPT ![c].pc = "done", ![c].abort = "fatal", ![c].updates = << >>,
                        ![c].priors = << >>, ![c].i = 0]
  /\ IF c = 1
     THEN sched' = "exited" /\ browser' = "closed"
     ELSE sched' \in {sched, "exited"} /\ UNCHANGED browser
  /\ UNCHANGED <<prog, pureVars, storeVars, remote, files, isLoggedIn, started,
                 decisions, lastCall>>

\* downloadFile is called for updates[i]; part_000 derives the file name
\* and the path before the transfer
DlBegin(c) ==
  /\ Running
  /\ cyc[c].pc = "dlNext"
  /\ LET download == cyc[c].updates[cyc[c].i]
         fileName == FileNamePart(download)
     IN cyc' = [cyc EXCEPT ![c] =
          IF prog = "index_js"
          THEN [cyc[c] EXCEPT !.pc = "dlTransfer", !.retry = 0]
          ELSE [cyc[c] EXCEPT !.pc = "dlTransfer", !.fileName = fileName,
                              !.filePath = FilePath(prog, download, fileName)]]
  /\ UNCHANGED <<prog, pureVars, storeVars, remote, files, isLoggedIn, browser, sched,
                 started, decisions, lastCall>>

\* src/index.js: one attempt of the retry loop fails
DlRetryIndex(c) ==
  /\ Running
  /\ prog = "index_js"
  /\ cyc[c].pc = "dlTransfer"
  /\ IF cyc[c].retry + 1 >= maxRetries
     THEN Failed(c, files, FALSE, FALSE, "transfer")
     ELSE /\ cyc' = [cyc EXCEPT ![c].retry = @ + 1]
          /\ UNCHANGED lastCall
  /\ UNCHANGED <<prog, pureVars, storeVars, remote, files, isLoggedIn, browser, sched,
                 started, decisions>>

\* src/index.js: the download event arrives; the file name, the path,
\* saveAs (which throws, or leaves a file)
DlSaveIndex(c) ==
  /\ Running
  /\ prog = "index_js"
  /\ cyc[c].pc = "dlTransfer"
  /\ \/ /\ Failed(c, files, FALSE, FALSE, "save")
        /\ UNCHANGED files
     \/ \E suggested \in SuggestedNames : \E size \in FileSizes :
          LET download == cyc[c].updates[cyc[c].i]
              fileName == FileNameIndex(download, suggested)
              filePath == FilePath(prog, download, fileName)
          IN /\ files' = WriteFile(files, filePath, size)
             /\ cyc' = [cyc EXCEPT ![c].pc = "dlSaved", ![c].fileName = fileName,
                                   ![c].filePath = filePath]
             /\ UNCHANGED lastCall
  /\ UNCHANGED <<prog, pureVars, storeVars, remote, isLoggedIn, browser, sched, started,
                 decisions>>

\* part_000: the request fails, or the write stream fails after it has
\* truncated the file (the catch block unlinks the path), or the stream
\* finishes
DlTransferPart(c) ==
  /\ Running
  /\ prog = "part_000"
  /\ cyc[c].pc = "dlTransfer"
  /\ \/ \E unlinkOk \in BOOLEAN : \E truncated \in BOOLEAN :
          LET fs == IF truncated THEN WriteFile(files, cyc[c].filePath, 0) ELSE files
              after == Unlink(fs, cyc[c].filePath, unlinkOk)
          IN /\ files' = after
             /\ Failed(c, after, TRUE, unlinkOk /\ cyc[c].filePath \in DOMAIN fs, "transfer")
     \/ \E size \in FileSizes :
          /\ files' = WriteFile(files, cyc[c].filePath, size)
          /\ cyc' = [cyc EXCEPT ![c].pc = "dlSaved"]
          /\ UNCHANGED lastCall
  /\ UNCHANGED <<prog, pureVars, storeVars, remote, isLoggedIn, browser, sched, started,
                 decisions>>

\* fs.stat throws because the file is gone
DlStatFails(c) ==
  /\ Running
  /\ cyc[c].pc = "dlSaved"
  /\ cyc[c].filePath \notin DOMAIN files
  /\ Failed(c, files, prog = "part_000", FALSE, "stat")
  /\ UNCHANGED <<prog, pureVars, storeVars, remote, files, isLoggedIn, browser, sched,
                 started, decisions>>

\* fs.stat and the size check.  A verified size: updateMetadata assigns
\* this.metadata[key] and calls fs.writeFile.  Otherwise the file is
\* unlinked and the call returns false.
DlVerify(c) ==
  /\ Running
  /\ cyc[c].pc = "dlSaved"
  /\ cyc[c].filePath \in DOMAIN files
  /\ LET inst == cyc[c]
         download == inst.updates[inst.i]
         key == MetadataKey(download.appType, download.category)
         size == files[inst.filePath]
     IN IF VerifiedSize(size)
        THEN LET data == UpdateRecord(download, inst.fileName, inst.filePath, size, c)
                 m == SetMetadata(metadata, key, data)
             IN /\ metadata' = m
                /\ cyc' = [cyc EXCEPT ![c].pc = "dlWrite", ![c].size = size,
                                      ![c].writing = Stringify(m)]
                /\ UNCHANGED <<files, lastCall>>
        ELSE \E unlinkOk \in BOOLEAN :
               /\ files' = Unlink(files, inst.filePath, unlinkOk)
               /\ cyc' = [cyc EXCEPT ![c] = ReturnFrom(prog, inst, FALSE)]
               /\ lastCall' = [ret |-> FALSE, size |-> size, wrote |-> FALSE,
                               unlinkTried |-> TRUE, unlinkOk |-> unlinkOk,
                               exists |-> inst.filePath \in DOMAIN files',
                               failedIn |-> "size", attempts |-> 0]
               /\ UNCHANGED metadata
  /\ UNCHANGED <<prog, pureVars, disk, lastPut, remote, isLoggedIn, browser, sched,
                 started, decisions>>

\* fs.writeFile of metadata.json completes: downloadFile returns true
DlWriteDone(c) ==
  /\ Running
  /\ cyc[c].pc = "dlWrite"
  /\ disk' = DiskFile(cyc[c].writing)
  /\ cyc' = [cyc EXCEPT ![c] = ReturnFrom(prog, cyc[c], TRUE)]
  /\ lastCall' = [ret |-> TRUE, size |-> cyc[c].size, wrote |-> TRUE,
                  unlinkTried |-> FALSE, unlinkOk |-> FALSE, exists |-> TRUE,
                  failedIn |-> "none", attempts |-> 0]
  /\ UNCHANGED <<prog, pureVars, metadata, lastPut, remote, files, isLoggedIn, browser,
                 sched, started, decisions>>

\* fs.writeFile fails, leaving the old file or a broken one: src/index.js
\* returns false; part_000 unlinks the downloaded file and returns false
DlWriteFails(c) ==
  /\ Running
  /\ cyc[c].pc = "dlWrite"
  /\ disk' \in {disk, Corrupt}
  /\ \E unlinkOk \in BOOLEAN :
       /\ prog = "index_js" => ~unlinkOk
       /\ files' = IF prog = "part_000" THEN Unlink(files, cyc[c].filePath, unlinkOk)
                   ELSE files
       /\ cyc' = [cyc EXCEPT ![c] = ReturnFrom(prog, cyc[c], FALSE)]
       /\ lastCall' = [ret |-> FALSE, size |-> NoSize, wrote |-> TRUE,
                       unlinkTried |-> prog = "part_000", unlinkOk |-> unlinkOk,
                       exists |-> cyc[c].filePath \in DOMAIN files',
                       failedIn |-> "write", attempts |-> 0]
  /\ UNCHANGED <<prog, pureVars, metadata, lastPut, remote, isLoggedIn, browser, sched,
                 started, decisions>>

(***************************************************************************)
(* run: the schedulers.                                                    *)
(***************************************************************************)
\* Mutation of StartCyclePart: isLoggedIn is not reset after the relaunch.
StartCyclePartKeepingLogin ==
  /\ Running
  /\ prog = "part_000"
  /\ started < MaxCycles
  /\ cyc[started].pc = "done"
  /\ started' = started + 1
  /\ \/ /\ browser' = "open"
        /\ UNCHANGED isLoggedIn
        /\ cyc' = [cyc EXCEPT ![started + 1].pc = "login"]
     \/ /\ browser' = "closed"
        /\ UNCHANGED isLoggedIn
        /\ cyc' = [cyc EXCEPT ![started + 1].pc = "done", ![started + 1].abort = "launch"]
  /\ UNCHANGED <<prog, pureVars, storeVars, remote, files, sched, decisions, lastCall>>

\* part_000: an iteration of the while loop: cleanup, launchBrowser (which
\* may throw: the catch block cleans up), isLoggedIn = false, checkForUpdates
StartCyclePart ==
  /\ Running
  /\ prog = "part_000"
  /\ started < MaxCycles
  /\ cyc[started].pc = "done"
  /\ started' = started + 1
  /\ \/ /\ browser' = "open"
        /\ isLoggedIn' = FALSE
        /\ cyc' = [cyc EXCEPT ![started + 1].pc = "login"]
     \/ /\ browser' = "closed"
        /\ UNCHANGED isLoggedIn
        /\ cyc' = [cyc EXCEPT ![started + 1].pc = "done", ![started + 1].abort = "launch"]
  /\ UNCHANGED <<prog, pureVars, storeVars, remote, files, sched, decisions, lastCall>>

\* src/index.js: after the first check, cron.schedule or the one-time exit
ScheduleCron ==
  /\ Running
  /\ prog = "index_js"
  /\ sched = "none"
  /\ cyc[1].pc = "done"
  /\ \/ sched' = "cron" /\ UNCHANGED browser
     \/ sched' = "onetime" /\ browser' = "closed"
  /\ UNCHANGED <<prog, pureVars, storeVars, remote, files, isLoggedIn, started, cyc,
                 decisions, lastCall>>

\* src/index.js: the cron callback calls checkForUpdates, whether or not
\* an earlier call has returned
CronTick ==
  /\ Running
  /\ prog = "index_js"
  /\ sched = "cron"
  /\ started < MaxCycles
  /\ started' = started + 1
  /\ cyc' = [cyc EXCEPT ![started + 1].pc = "login"]
  /\ UNCHANGED <<prog, pureVars, storeVars, remote, files, isLoggedIn, browser, sched,
                 decisions, lastCall>>

NoPut == [key |-> <<"", "">>, data |-> << >>, before |-> EmptyMetadata,
          text |-> << >>, state |-> "none"]

ExtIdle == extIn = << >> /\ extOut = << >> /\ extDone = FALSE

NameIdle == nameIn = << >> /\ nameOut = << >> /\ nameDone = FALSE

PureIdle ==
  /\ catIn = << >> /\ catApp = "ista-p" /\ catOut = << >> /\ catDone = FALSE
  /\ verIn = << >> /\ verOut = << >> /\ verDone = FALSE
  /\ ExtIdle
  /\ NameIdle

OrchIdle ==
  /\ remote = [a \in Apps |-> << >>]
  /\ files = << >>
  /\ isLoggedIn = FALSE
  /\ browser = "closed"
  /\ sched = "none"
  /\ started = 0
  /\ cyc = [c \in Cycles |-> IdleCycle]
  /\ decisions = << >>
  /\ lastCall = NoCall

\* the state after initialize(): metadata loaded, browser launched, the
\* first checkForUpdates called
Init ==
  /\ prog \in Progs
  /\ PureIdle
  /\ remote \in Sites
  /\ \E s \in StartDisks(prog) :
       /\ disk = s.disk
       /\ files = s.files
       /\ metadata = loadMetadata(s.disk)
  /\ isLoggedIn = FALSE
  /\ browser = "open"
  /\ sched = "none"
  /\ started = 1
  /\ cyc = [c \in Cycles |-> IF c = 1 THEN [IdleCycle EXCEPT !.pc = "login"] ELSE IdleCycle]
  /\ decisions = << >>
  /\ lastCall = NoCall
  /\ lastPut = NoPut

Next ==
  \/ \E c \in Cycles :
       \/ Login(c) \/ Extract(c) \/ ExtractFatal(c) \/ DlBegin(c) \/ DlRetryIndex(c) \/ DlSaveIndex(c)
       \/ DlTransferPart(c) \/ DlStatFails(c) \/ DlVerify(c) \/ DlWriteDone(c)
       \/ DlWriteFails(c)
  \/ StartCyclePart
  \/ ScheduleCron
  \/ CronTick

Spec == Init /\ [][Next]_vars
(***************************************************************************)
(* Specification of one categorization pass.                               *)
(***************************************************************************)
StoreIdle ==
  /\ metadata = EmptyMetadata
  /\ disk = Missing
  /\ lastPut = NoPut

InitCat ==
  /\ prog \in Progs
  /\ catApp \in Apps
  /\ catIn \in SeqsUpTo(CandidatePool, MaxCands)
  /\ catOut = << >> /\ catDone = FALSE
  /\ verIn = << >> /\ verOut = << >> /\ verDone = FALSE
  /\ ExtIdle
  /\ NameIdle
  /\ OrchIdle
  /\ StoreIdle

Categorize ==
  /\ ~catDone
  /\ catOut' = categorizeDownloads(prog, catIn, catApp)
  /\ catDone' = TRUE
  /\ UNCHANGED <<prog, catIn, catApp, verIn, verOut, verDone, extVars, nameVars,
                 orchVars, storeVars>>

SpecCat == InitCat /\ [][Categorize]_vars

(***************************************************************************)
(* Specification of one version extraction.                                *)
(***************************************************************************)
InitVer ==
  /\ prog \in Progs
  /\ catApp = "ista-p" /\ catIn = << >> /\ catOut = << >> /\ catDone = FALSE
  /\ verIn \in { Concat(cs) : cs \in SeqsUpTo(VersionChunks, MaxChunks) }
  /\ verOut = << >> /\ verDone = FALSE
  /\ ExtIdle
  /\ NameIdle
  /\ OrchIdle
  /\ StoreIdle

ExtractVersion ==
  /\ ~verDone
  /\ verOut' = extractVersion(verIn)
  /\ verDone' = TRUE
  /\ UNCHANGED <<prog, catIn, catApp, catOut, catDone, verIn, extVars, nameVars,
                 orchVars, storeVars>>

SpecVer == InitVer /\ [][ExtractVersion]_vars

(***************************************************************************)
(* The extractor: the page evaluation of findDownloads (part_000) and of   *)
(* getDownloads (src/index.js), followed by categorizeDownloads.           *)
(*                                                                         *)
(* Pages modelled: a main document and at most one iframe; the anchors and *)
(* buttons are visible children of body and carry no class, id, data-href, *)
(* ng-href, aria-label or title attribute.  On such pages the container    *)
(* rules of src/index.js (Method 2 and Method 2.5) select nothing: no      *)
(* element matches a container selector, and a container that is a child   *)
(* of body has no anchor or button inside it, while body itself and html   *)
(* are skipped by the test container !== doc.body && parentElement.        *)
(***************************************************************************)
k_api_v2_downloads == <<"/","a","p","i","/","v","2","/","d","o","w","n","l","o","a","d","s">>
k_pdf == <<".","p","d","f">>
ApiBase == <<"h","t","t","p","s",":","/","/","a","o","s","/","a","p","i","/","v","2","/","d","o","w","n","l","o","a","d","s","/">>

\* null, as a value that no JavaScript string equals
Null == <<"<null>">>

\* ToBoolean of a string, undefined or null
Truthy(v) == v # Undefined /\ v # Null /\ v # << >>

\* a || b
OrElse(a, b) == IF Truthy(a) THEN a ELSE b

\* <a href=...>text</a>: elem.href is the resolved url, no onclick attribute
Anchor(href, text) == [tag |-> "a", href |-> href, text |-> text, onclick |-> Null]

\* <button onclick=...>text</button>: elem.href is undefined
Button(text, onclick) == [tag |-> "button", href |-> Undefined, text |-> text, onclick |-> onclick]

ApiUrl(file) == ApiBase \o file

\* the elements a page is made of
ElementPool ==
  { \* <a href=".../ISTAOSS_1.2.3.4.zip">Installationsdatei ISTA Client</a>
    Anchor(ApiUrl(u_client), t_client),
    \* <a href=".../Manual.pdf">Handbuch</a>
    Anchor(ApiUrl(<<"M","a","n","u","a","l",".","p","d","f">>),
           <<"H","a","n","d","b","u","c","h">>),
    \* <a href="https://aos/imprint">Impressum</a>
    Anchor(<<"h","t","t","p","s",":","/","/","a","o","s","/","i","m","p","r","i","n","t">>,
           <<"I","m","p","r","e","s","s","u","m">>),
    \* an anchor around an icon, without text
    Anchor(ApiUrl(u_icom), << >>),
    \* <button onclick="download('m')">Handbuch.pdf</button>
    Button(<<"H","a","n","d","b","u","c","h",".","p","d","f">>,
           <<"d","o","w","n","l","o","a","d","(","'","m","'",")">>),
    \* <button onclick="download('c')">ISTA Client Update</button>
    Button(t_client2, <<"d","o","w","n","l","o","a","d","(","'","c","'",")">>) }

\* the entries of component.downloads
ComponentEntry(title, name, url, downloadUrl) ==
  [title |-> title, name |-> name, url |-> url, downloadUrl |-> downloadUrl]

\* window.ng.getComponent(appRoot): present with its downloads, or absent
Component(present, downloads) == [present |-> present, downloads |-> downloads]

ComponentPool ==
  { Component(FALSE, << >>),
    Component(TRUE, << >>),
    Component(TRUE, << ComponentEntry(t_icom, Undefined, ApiUrl(u_icom), Undefined) >>),
    Component(TRUE, << ComponentEntry(Undefined, t_icom, Undefined, ApiUrl(u_icom)) >>),
    Component(TRUE, << ComponentEntry(t_icom, Undefined, Undefined, Undefined) >>) }

MaxMain == 2
MaxFrame == 1

\* an iframe: its document can be read, or the access throws (cross-origin)
Frame(accessible, doc) == [accessible |-> accessible, doc |-> doc]

FramePool ==
  { << >>, << Frame(FALSE, << >>) >> }
    \cup { << Frame(TRUE, d) >> : d \in SeqsUpTo(ElementPool, MaxFrame) }

Pages ==
  [ appType : Apps,
    main : SeqsUpTo(ElementPool, MaxMain),
    frames : FramePool,
    component : ComponentPool ]

Found(title, url, method) == [title |-> title, url |-> url, method |-> method]

\* part_000, searchForDownloads: the a[href] rule, then the button rule
searchForDownloads(doc, frameInfo) ==
  LET IsLink(e) ==
        /\ e.tag = "a"
        /\ ~(includes(toLowerCase(e.href), k_pdf) \/ includes(toLowerCase(e.text), k_pdf))
        /\ Truthy(e.href) /\ includes(e.href, k_api_v2_downloads) /\ Truthy(e.text)
      Link(e) == Found(e.text, e.href, <<"link_search", frameInfo>>)
      IsButton(e) ==
        /\ e.tag = "button"
        /\ Truthy(e.text) /\ Truthy(e.onclick) /\ includes(e.onclick, s_download)
      ButtonOf(e) == Found(e.text, e.onclick, <<"button_search", frameInfo>>)
      links == SelectSeq(doc, IsLink)
      buttons == SelectSeq(doc, IsButton)
  IN [i \in 1..Len(links) |-> Link(links[i])]
       \o [i \in 1..Len(buttons) |-> ButtonOf(buttons[i])]

\* part_000, the page.evaluate of findDownloads
FindDownloadsPart(page) ==
  LET InFrame(index) ==
        IF page.frames[index].accessible
        THEN searchForDownloads(page.frames[index].doc, <<"frame", index - 1>>)
        ELSE << >>
  IN searchForDownloads(page.main, <<"main">>)
       \o Concat([index \in 1..Len(page.frames) |-> InFrame(index)])

\* src/index.js, the href substrings of downloadPatterns (a[href*="..."])
downloadPatterns ==
  << k_api_v2_downloads,
     <<"/","a","p","i","/","v","1","/","d","o","w","n","l","o","a","d","s">>,
     <<"/","d","o","w","n","l","o","a","d">>,
     n_exe, n_zip, n_msi, n_istapdata,
     <<"I","S","T","A">>,
     s_download,
     <<"D","o","w","n","l","o","a","d">> >>

\* src/index.js, Method 1: one run of querySelectorAll per pattern; the
\* pattern 'button' follows the href patterns; the remaining patterns
\* select by type or class and match no element of these pages
RECURSIVE Method1From(_, _, _)
Method1From(doc, k, frameInfo) ==
  LET Href(e) == OrElse(e.href, e.onclick)
      Make(e) == Found(e.text, Href(e), <<"selector", k, frameInfo>>)
  IN IF k > Len(downloadPatterns) + 1 THEN << >>
     ELSE LET Selected(e) ==
                /\ IF k <= Len(downloadPatterns)
                   THEN e.tag = "a" /\ includes(e.href, downloadPatterns[k])
                   ELSE e.tag = "button"
                /\ Truthy(Href(e)) /\ Truthy(e.text)
              elements == SelectSeq(doc, Selected)
          IN [i \in 1..Len(elements) |-> Make(elements[i])]
               \o Method1From(doc, k + 1, frameInfo)

downloadKeywords ==
  { s_download,
    <<"h","e","r","u","n","t","e","r","l","a","d","e","n">>,
    <<"i","n","s","t","a","l","l">>,
    <<"i","n","s","t","a","l","l","a","t","i","o","n">>,
    n_client, n_firmware, n_treiber,
    <<"d","r","i","v","e","r">> }

\* src/index.js, Method 1.5 (keyword_search): elements with an href
Method15(doc, frameInfo) ==
  LET Selected(e) ==
        /\ \E keyword \in downloadKeywords : includes(toLowerCase(e.text), keyword)
        /\ Truthy(e.href)
        /\ Len(e.text) > 0 /\ Len(e.text) < 200
      Make(e) == Found(e.text, e.href, <<"keyword_search", frameInfo>>)
      elements == SelectSeq(doc, Selected)
  IN [i \in 1..Len(elements) |-> Make(elements[i])]

\* src/index.js, analyzeDocument
analyzeDocument(doc, frameInfo) ==
  Method1From(doc, 1, frameInfo) \o Method15(doc, frameInfo)

\* src/index.js, Method 3 (angular_component)
Method3(component) ==
  IF ~component.present THEN << >>
  ELSE [i \in 1..Len(component.downloads) |->
          Found(OrElse(component.downloads[i].title, component.downloads[i].name),
                OrElse(component.downloads[i].url, component.downloads[i].downloadUrl),
                <<"angular_component">>)]

\* a case-insensitive regular expression without metacharacters, tested on
\* String(v)
TestIgnoreCase(v, word) ==
  v # Undefined /\ v # Null /\ includes(toLowerCase(v), word)

clickablePatterns == downloadKeywords \cup { n_exe, n_zip, n_msi }

\* src/index.js, Method 4 (clickable_element)
Method4(doc) ==
  LET Selected(e) ==
        /\ \E word \in clickablePatterns :
              \/ TestIgnoreCase(e.text, word)
              \/ TestIgnoreCase(e.href, word)
              \/ TestIgnoreCase(e.onclick, word)
        /\ Truthy(e.href) \/ Truthy(e.onclick)
        /\ Len(e.text) > 0
      Make(e) == Found(e.text, OrElse(e.href, e.onclick), <<"clickable_element">>)
      elements == SelectSeq(doc, Selected)
  IN [i \in 1..Len(elements) |-> Make(elements[i])]

visibleKeywords ==
  downloadKeywords
    \cup { <<"e","x","e">>, <<"z","i","p">>, <<"m","s","i">>,
           <<"i","s","t","a","p","d","a","t","a">>,
           n_bdrclient, n_istaoss, n_programmingdata }

\* src/index.js, Method 5 (visible_element_search)
Method5(doc) ==
  LET Selected(e) ==
        /\ \E keyword \in visibleKeywords : includes(toLowerCase(e.text), keyword)
        /\ Truthy(e.href) \/ Truthy(e.onclick)
        /\ Len(e.text) > 0 /\ Len(e.text) < 200
      Make(e) == Found(e.text, OrElse(e.href, e.onclick), <<"visible_element_search">>)
      elements == SelectSeq(doc, Selected)
  IN [i \in 1..Len(elements) |-> Make(elements[i])]

\* src/index.js, the page.evaluate of getDownloads: analyzeDocument on the
\* main document and on the frames, then Methods 1 to 5 on the main
\* document at top level
GetDownloadsIndex(page) ==
  LET InFrame(index) ==
        IF page.frames[index].accessible
        THEN analyzeDocument(page.frames[index].doc, <<"frame", index - 1>>)
        ELSE << >>
  IN analyzeDocument(page.main, <<"main">>)
       \o Concat([index \in 1..Len(page.frames) |-> InFrame(index)])
       \o Method1From(page.main, 1, <<"top">>)
       \o Method15(page.main, <<"top">>)
       \o Method3(page.component)
       \o Method4(page.main)
       \o Method5(page.main)

FoundDownloads(p, page) ==
  IF p = "index_js" THEN GetDownloadsIndex(page) ELSE FindDownloadsPart(page)

\* download.title.toLowerCase() or download.url.toLowerCase() throws a
\* TypeError on undefined
CategorizeThrows(found) ==
  \E i \in 1..Len(found) : found[i].title = Undefined \/ found[i].url = Undefined

\* the try block after the page evaluation, and the catch block that
\* returns {}
ExtractionPass(p, page) ==
  LET found == FoundDownloads(p, page)
  IN [ found |-> found,
       threw |-> CategorizeThrows(found),
       downloads |-> IF CategorizeThrows(found) THEN << >>
                     ELSE categorizeDownloads(p, found, page.appType) ]

InitExt ==
  /\ prog \in Progs
  /\ catIn = << >> /\ catApp = "ista-p" /\ catOut = << >> /\ catDone = FALSE
  /\ verIn = << >> /\ verOut = << >> /\ verDone = FALSE
  /\ extIn \in Pages
  /\ extOut = << >> /\ extDone = FALSE
  /\ NameIdle
  /\ OrchIdle
  /\ StoreIdle

FindDownloads ==
  /\ ~extDone
  /\ extOut' = ExtractionPass(prog, extIn)
  /\ extDone' = TRUE
  /\ UNCHANGED <<prog, catIn, catApp, catOut, catDone, verIn, verOut, verDone, extIn,
                 nameVars, orchVars, storeVars>>

SpecExt == InitExt /\ [][FindDownloads]_vars

(***************************************************************************)
(* Specification of the file name and path that downloadFile derives.      *)
(***************************************************************************)

\* the last path segment of the urls tried
NameFiles ==
  { u_client, u_ptd, s_download, << >>,
    <<"g","e","t">>,
    <<"s","e","t","u","p">>,
    <<"a",".","b">>,
    <<"f","w","-","4",".","5",".","6">> }

NameCategories == {"installer", "client", "ptd_driver"}

\* the categorized downloads handed to downloadFile
NameDownloads(p) ==
  UNION { { CategorizedDownload(p, Candidate(t_generic, file), category, appType) :
              file \in NameFiles,
              category \in validCategories(p, appType) \cap NameCategories } :
          appType \in Apps }

\* downloadEvent.suggestedFilename()
NameSuggestions ==
  SuggestedNames \cup { <<"a","b","c">>, <<"s","e","t","u","p",".","e","x","e">> }

\* the name the transfer gives: the download event's suggested name in
\* src/index.js, the name taken from the request url in part_000
ObtainedName(p, download, suggestedFilename) ==
  IF p = "index_js" THEN suggestedFilename ELSE extractCleanFilename(download.url)

\* downloadFile up to the computation of filePath
DerivedName(p, download, suggestedFilename) ==
  LET fileName == IF p = "index_js" THEN FileNameIndex(download, suggestedFilename)
                  ELSE FileNamePart(download)
  IN [fileName |-> fileName, filePath |-> FilePath(p, download, fileName)]

InitName ==
  /\ prog \in Progs
  /\ catIn = << >> /\ catApp = "ista-p" /\ catOut = << >> /\ catDone = FALSE
  /\ verIn = << >> /\ verOut = << >> /\ verDone = FALSE
  /\ ExtIdle
  /\ \E download \in NameDownloads(prog) : \E suggested \in NameSuggestions :
       nameIn = [download |-> download, suggested |-> suggested]
  /\ nameOut = << >> /\ nameDone = FALSE
  /\ OrchIdle
  /\ StoreIdle

DeriveName ==
  /\ ~nameDone
  /\ nameOut' = DerivedName(prog, nameIn.download, nameIn.suggested)
  /\ nameDone' = TRUE
  /\ UNCHANGED <<prog, catIn, catApp, catOut, catDone, verIn, verOut, verDone, extVars,
                 nameIn, orchVars, storeVars>>

SpecName == InitName /\ [][DeriveName]_vars

(***************************************************************************)
(* C1.  In one pass of categorizeDownloads no category holds two entries;  *)
(* the entry of a category is the first candidate of the list that maps to *)
(* it, and every candidate that maps to a category of the application is   *)
(* either that entry or comes after it in the list.                        *)
(***************************************************************************)
SameCandidate(entry, download) ==
  entry.title = download.title /\ entry.url = download.url

MapsTo(k, category) ==
  /\ CategoryOf(prog, catIn[k], catApp) = category
  /\ category \in validCategories(prog, catApp)

C1_KeepFirst ==
  catDone =>
    /\ \A i, j \in 1..Len(catOut) : catOut[i].category = catOut[j].category => i = j
    /\ \A i \in 1..Len(catOut) :
         \E k \in 1..Len(catIn) :
           /\ MapsTo(k, catOut[i].category)
           /\ SameCandidate(catOut[i], catIn[k])
           /\ \A j \in 1..(k - 1) : ~MapsTo(j, catOut[i].category)
    /\ \A k \in 1..Len(catIn) : \A c \in validCategories(prog, catApp) :
         MapsTo(k, c) => HasCategory(catOut, c)

C1_Witness ==
  /\ catDone
  /\ \E j, k \in 1..Len(catIn) :
       /\ j < k
       /\ catIn[j].url # catIn[k].url
       /\ \E c \in validCategories(prog, catApp) : MapsTo(j, c) /\ MapsTo(k, c)
       /\ \E i \in 1..Len(catOut) : SameCandidate(catOut[i], catIn[j])

(***************************************************************************)
(* C2.  For ista-next a candidate that satisfies the programming-data      *)
(* heuristics (label contains 'programmierdaten', or target contains the   *)
(* programming-data marker) and the client heuristics is never stored as   *)
(* client, and when it is the first of the list it is stored as            *)
(* programming_data.                                                       *)
(***************************************************************************)
ProgrammingDataHeuristic(download) ==
  \/ includes(toLowerCase(download.title), n_programmierdaten)
  \/ includes(download.url, n_ISTAOSS_ProgrammingData_)

ClientHeuristic(download) ==
  \/ includes(toLowerCase(download.title), n_installationsdatei)
  \/ includes(toLowerCase(download.title), n_client)
  \/ includes(toLowerCase(download.url), n_istaoss)

StoredAs(download, category) ==
  \E i \in 1..Len(catOut) :
    catOut[i].category = category /\ SameCandidate(catOut[i], download)

C2_ProgrammingDataBeforeClient ==
  (catDone /\ catApp = "ista-next") =>
    \A k \in 1..Len(catIn) :
      (ProgrammingDataHeuristic(catIn[k]) /\ ClientHeuristic(catIn[k])) =>
        /\ ~StoredAs(catIn[k], "client")
        /\ (k = 1 => StoredAs(catIn[k], "programming_data"))

(***************************************************************************)
(* C3.  extractVersion returns the leftmost four-part dotted token when    *)
(* the target holds one; else the leftmost three-part dotted token when it *)
(* holds one; else the leftmost hyphen triple when it holds one; else      *)
(* 'unknown'.  The token is taken with all its trailing digits.            *)
(***************************************************************************)
\* t is n non-empty digit groups joined by sep
IsToken(t, n, sep) ==
  /\ Len(t) > 0
  /\ \A i \in 1..Len(t) : t[i] \in Digits \cup {sep}
  /\ t[1] \in Digits /\ t[Len(t)] \in Digits
  /\ \A i \in 1..(Len(t) - 1) : ~(t[i] = sep /\ t[i + 1] = sep)
  /\ Cardinality({ i \in 1..Len(t) : t[i] = sep }) = n - 1

TokenAt(s, i, j, n, sep) == i <= j /\ IsToken(SubSeq(s, i, j), n, sep)

HasToken(s, n, sep) == \E i, j \in 1..Len(s) : TokenAt(s, i, j, n, sep)

\* t is the token of that shape that starts leftmost in s, with every
\* trailing digit
IsLeftmostToken(s, t, n, sep) ==
  \E i \in 1..Len(s) :
    LET j == i + Len(t) - 1 IN
    /\ j <= Len(s)
    /\ SubSeq(s, i, j) = t
    /\ IsToken(t, n, sep)
    /\ (j < Len(s) => s[j + 1] \notin Digits)
    /\ \A i2 \in 1..(i - 1) : \A j2 \in 1..Len(s) : ~TokenAt(s, i2, j2, n, sep)

C3_VersionPriority ==
  verDone =>
    IF HasToken(verIn, 4, ".") THEN IsLeftmostToken(verIn, verOut, 4, ".")
    ELSE IF HasToken(verIn, 3, ".") THEN IsLeftmostToken(verIn, verOut, 3, ".")
    ELSE IF HasToken(verIn, 3, "-") THEN IsLeftmostToken(verIn, verOut, 3, "-")
    ELSE verOut = s_unknown

\* a three-part token occurs before the four-part token that is returned
C3_Witness ==
  /\ verDone
  /\ \E i, j, i4, j4 \in 1..Len(verIn) :
       /\ TokenAt(verIn, i, j, 3, ".")
       /\ TokenAt(verIn, i4, j4, 4, ".")
       /\ j < i4
       /\ verOut = SubSeq(verIn, i4, j4)

(***************************************************************************)
(* Specification of the metadata store alone: updateMetadata calls, one    *)
(* after the other, and restarts of the process that load the file again.  *)
(***************************************************************************)
StoreKeys == { MetadataKey("ista-p", "installer"), MetadataKey("ista-next", "client") }

\* records as downloadFile builds them, two per key
StoreRecords(p, key) ==
  LET files2 == IF key[1] = "ista-p" THEN {u_installer, u_installer100}
                ELSE {u_client, u_client2}
  IN { LET download == CategorizedDownload(p, [title |-> t_generic, url |-> <<"/">> \o f,
                                               method |-> "link_search_main"],
                                           key[2], key[1])
           fileName == FileNamePart(download)
       IN UpdateRecord(download, fileName, FilePath(p, download, fileName), 7, 1)
       : f \in files2 }

InitStore ==
  /\ prog \in Progs
  /\ PureIdle
  /\ OrchIdle
  /\ disk \in { s.disk : s \in StartDisks(prog) } \cup {NotObject}
  /\ metadata = loadMetadata(disk)
  /\ lastPut = NoPut

\* updateMetadata(key, data) up to the call of fs.writeFile
StorePut ==
  /\ lastPut.state # "writing"
  /\ IF IsNullMetadata(metadata)
     THEN /\ lastPut' = [NoPut EXCEPT !.state = "threw"]
          /\ UNCHANGED metadata
     ELSE \E key \in StoreKeys : \E data \in StoreRecords(prog, key) :
            LET m == SetMetadata(metadata, key, data) IN
            /\ metadata' = m
            /\ lastPut' = [key |-> key, data |-> data, before |-> metadata,
                           text |-> Stringify(m), state |-> "writing"]
  /\ UNCHANGED <<prog, pureVars, orchVars, disk>>

\* isNewVersion(key, version) of the running process; the optional chaining
\* of this.metadata[key]?.version guards the record, not this.metadata
StoreDecide ==
  /\ lastPut.state # "writing"
  /\ IF IsNullMetadata(metadata)
     THEN /\ lastPut' = [NoPut EXCEPT !.state = "threw"]
          /\ UNCHANGED decisions
     ELSE /\ \E key \in StoreKeys : \E download \in StoreRecords(prog, key) :
               decisions' = <<Decision(metadata, download)>>
          /\ UNCHANGED lastPut
  /\ UNCHANGED <<prog, pureVars, remote, files, isLoggedIn, browser, sched, started,
                 cyc, lastCall, metadata, disk>>

\* fs.writeFile completes, or fails and leaves the old or a broken file
StoreWriteDone ==
  /\ lastPut.state = "writing"
  /\ \/ /\ disk' = DiskFile(lastPut.text)
        /\ lastPut' = [lastPut EXCEPT !.state = "written"]
     \/ /\ disk' \in {disk, Corrupt}
        /\ lastPut' = [lastPut EXCEPT !.state = "failed"]
  /\ UNCHANGED <<prog, pureVars, orchVars, metadata>>

\* the process is restarted: initialize() calls loadMetadata.  A process
\* that ends inside fs.writeFile, which truncates the file before it writes,
\* leaves the old file or a text that JSON.parse rejects
StoreReload ==
  /\ disk' \in (IF lastPut.state = "writing" THEN {disk, Corrupt} ELSE {disk})
  /\ metadata' = loadMetadata(disk')
  /\ lastPut' = [lastPut EXCEPT !.state = IF @ = "written" THEN "reloaded" ELSE "none"]
  /\ decisions' = << >>
  /\ UNCHANGED <<prog, pureVars, remote, files, isLoggedIn, browser, sched, started,
                 cyc, lastCall>>

SpecStore == InitStore /\ [][StorePut \/ StoreDecide \/ StoreWriteDone \/ StoreReload]_vars

(***************************************************************************)
(* C4.  For a key without a record isNewVersion answers 'new' for every    *)
(* candidate version, 'unknown' included: in every decision the            *)
(* orchestrator takes, and for every key and version in every reachable    *)
(* state of the store.                                                     *)
(***************************************************************************)
ProbeVersions == {s_unknown, v_100, v_099, <<"4",".","5",".","6">>}

C4_NoRecordIsNew ==
  /\ \A i \in 1..Len(decisions) : ~decisions[i].hadRecord => decisions[i].isNew
  /\ \A key \in AllKeys \ DOMAIN metadata : \A v \in ProbeVersions :
       isNewVersion(metadata, key, v)

C4_Witness ==
  \E i \in 1..Len(decisions) :
    /\ ~decisions[i].hadRecord
    /\ decisions[i].version = s_unknown
    /\ decisions[i].isNew

(***************************************************************************)
(* C5.  For a key with a record a candidate of version 'unknown' is        *)
(* decided 'not new', whatever version the record holds, and is not put    *)
(* on the list of updates that go to downloadFile.                         *)
(***************************************************************************)
C5_UnknownWithRecordNotNew ==
  /\ \A i \in 1..Len(decisions) :
       (decisions[i].hadRecord /\ decisions[i].version = s_unknown) => ~decisions[i].isNew
  /\ \A key \in DOMAIN metadata : ~isNewVersion(metadata, key, s_unknown)
  /\ \A c \in Cycles : \A j \in 1..Len(cyc[c].updates) :
       cyc[c].updates[j].version = s_unknown => ~cyc[c].priors[j]

C5_Witness ==
  \E i \in 1..Len(decisions) :
    /\ decisions[i].hadRecord
    /\ decisions[i].version = s_unknown
    /\ decisions[i].stored # s_unknown
    /\ ~decisions[i].isNew

(***************************************************************************)
(* C6.  For a key with a record and a candidate version other than         *)
(* 'unknown' the decision is 'new' exactly when the candidate version      *)
(* differs from the stored version.                                        *)
(***************************************************************************)
C6_NewIffVersionDiffers ==
  /\ \A i \in 1..Len(decisions) :
       (decisions[i].hadRecord /\ decisions[i].version # s_unknown) =>
         (decisions[i].isNew <=> decisions[i].version # decisions[i].stored)
  /\ \A key \in DOMAIN metadata : \A v \in ProbeVersions \ {s_unknown} :
       isNewVersion(metadata, key, v) <=> v # metadata[key].version

\* stored 0.9.9, candidate 1.0.0: new
C6_Witness ==
  \E i \in 1..Len(decisions) :
    /\ decisions[i].hadRecord
    /\ decisions[i].stored = v_099
    /\ decisions[i].version = v_100
    /\ decisions[i].isNew

(***************************************************************************)
(* C7.  After updateMetadata(key, data) has completed, loadMetadata yields *)
(* a mapping in which key holds data and every other key holds what        *)
(* this.metadata held before the call; a restarted process holds that      *)
(* mapping.                                                                *)
(***************************************************************************)
IsPutResult(m) ==
  /\ lastPut.key \in DOMAIN m
  /\ m[lastPut.key] = lastPut.data
  /\ \A k \in AllKeys \ {lastPut.key} :
       /\ k \in DOMAIN m <=> k \in DOMAIN lastPut.before
       /\ k \in DOMAIN m => m[k] = lastPut.before[k]

C7_StoreRoundTrip ==
  /\ lastPut.state = "written" => IsPutResult(loadMetadata(disk))
  /\ lastPut.state = "reloaded" => IsPutResult(metadata)

\* a restarted process after a write that replaced one of two records
C7_Witness ==
  /\ lastPut.state = "reloaded"
  /\ lastPut.key \in DOMAIN lastPut.before
  /\ lastPut.before[lastPut.key] # lastPut.data
  /\ DOMAIN lastPut.before # {lastPut.key}

(***************************************************************************)
(* C8.  A downloadFile call whose transfer left a zero-byte file returns   *)
(* false, has tried to remove the file (the file is gone when the removal  *)
(* succeeded) and has neither assigned this.metadata[key] nor written      *)
(* metadata.json.                                                          *)
(***************************************************************************)
C8_ZeroByteFails ==
  lastCall.size = 0 =>
    /\ ~lastCall.ret
    /\ ~lastCall.wrote
    /\ lastCall.unlinkTried
    /\ lastCall.unlinkOk => ~lastCall.exists

C8_Witness ==
  /\ lastCall.size = 0
  /\ lastCall.unlinkOk
  /\ \E c \in Cycles : cyc[c].failCount > 0

(***************************************************************************)
(* C9.  When a cycle has ended after logging in, extracting both           *)
(* applications and downloading every decided-new candidate with success,  *)
(* the next cycle downloads nothing and writes no metadata.                *)
(***************************************************************************)
CleanCycle(inst) ==
  /\ inst.pc = "done"
  /\ inst.extracted = Len(AppOrder)
  /\ inst.failCount = 0

C9_NextCycleIdle ==
  \A c \in Cycles \ {1} :
    CleanCycle(cyc[c - 1]) =>
      /\ cyc[c].updates = << >>
      /\ cyc[c].pc \notin ({"dlNext"} \cup InDownloadFile)
      /\ cyc[c].successCount = 0 /\ cyc[c].failCount = 0

(***************************************************************************)
(* C10.  At most one downloadFile call is in progress and at most one      *)
(* write of metadata.json is in progress.                                  *)
(***************************************************************************)
C10_OneDownloadAtATime ==
  /\ Cardinality({ c \in Cycles : cyc[c].pc \in InDownloadFile }) <= 1
  /\ Cardinality({ c \in Cycles : cyc[c].pc = "dlWrite" }) <= 1

(***************************************************************************)
(* C11: the authentication step of a cycle is skipped when the session     *)
(* flag is set; when authentication fails the cycle ends having checked no *)
(* application (nothing extracted, decided, downloaded or stored), the     *)
(* process keeps running, and every cycle that starts begins with the      *)
(* authentication step.                                                    *)
(***************************************************************************)
C11_LoginStep(c) ==
  /\ (cyc[c].pc = "login" /\ cyc'[c].pc # "login") =>
        /\ cyc'[c].pc \in {"extract", "done"}
        /\ isLoggedIn => (cyc'[c].pc = "extract" /\ isLoggedIn')
        /\ cyc'[c].pc = "extract" => isLoggedIn'
        /\ cyc'[c].pc = "done" =>
              /\ cyc'[c].abort = "login"
              /\ ~isLoggedIn'
              /\ Running'
              /\ UNCHANGED <<storeVars, files, decisions, lastCall, sched, browser>>
  /\ cyc'[c].abort = "login" =>
        /\ cyc'[c].pc = "done"
        /\ cyc'[c].extracted = 0 /\ cyc'[c].decided = 0
        /\ cyc'[c].successCount = 0 /\ cyc'[c].failCount = 0
  /\ (cyc[c].pc = "idle" /\ cyc'[c].pc # "idle") =>
        \/ cyc'[c].pc = "login"
        \/ cyc'[c].pc = "done" /\ cyc'[c].abort = "launch"

C11_LoginFailureAbortsCycle == [][\A c \in Cycles : C11_LoginStep(c)]_vars

C11_Witness ==
  \E c \in Cycles \ {MaxCycles} :
    /\ cyc[c].abort = "login"
    /\ cyc[c + 1].pc = "extract"
    /\ isLoggedIn
    /\ Running

(***************************************************************************)
(* C12: a failed navigation or extraction of one application gives no      *)
(* update for that application, does not end the process or the cycle,     *)
(* and the next application is processed in the same cycle; a cycle that   *)
(* ends after a successful login has gone through every application.       *)
(***************************************************************************)
C12_ExtractStep(c) ==
  /\ Running'
  /\ cyc'[c].abort # "fatal"
  /\ (cyc'[c].pc = "done" /\ cyc'[c].abort = "none") => cyc'[c].app = Len(AppOrder)
  /\ (cyc[c].pc = "extract" /\ cyc'[c] # cyc[c] /\ cyc'[c].extracted = cyc[c].extracted) =>
        /\ cyc'[c].decided = cyc[c].decided
        /\ cyc[c].app < Len(AppOrder) =>
              (cyc'[c].pc = "extract" /\ cyc'[c].app = cyc[c].app + 1)

C12_ApplicationsIndependent == [][\A c \in Cycles : C12_ExtractStep(c)]_vars

(***************************************************************************)
(* C13: the download loop of a cycle hands the decided-new candidates to   *)
(* downloadFile one after the other in list order, each once, whatever the *)
(* earlier calls returned; when the cycle ends successCount + failCount is *)
(* the number of candidates it decided new.                                *)
(***************************************************************************)
C13_Counted(inst) == inst.successCount + inst.failCount

C13_LoopStep(c) ==
  LET a == cyc[c]
      b == cyc'[c]
  IN /\ b.pc \in ({"dlNext"} \cup InDownloadFile) =>
          /\ b.i \in 1..Len(b.updates)
          /\ C13_Counted(b) = b.decided - Len(b.updates) + (b.i - 1)
     /\ b.pc = "done" => C13_Counted(b) = b.decided
     /\ (a.pc \in ({"dlNext"} \cup InDownloadFile) /\ C13_Counted(b) # C13_Counted(a)) =>
          /\ C13_Counted(b) = C13_Counted(a) + 1
          /\ IF a.i < Len(a.updates)
             THEN b.pc = "dlNext" /\ b.i = a.i + 1 /\ b.updates = a.updates
             ELSE b.pc \in {"extract", "done"}
     /\ (a.pc \in ({"dlNext"} \cup InDownloadFile) /\ C13_Counted(b) = C13_Counted(a)) =>
          (b.i = a.i /\ b.updates = a.updates)

C13_EachNewCandidateOnce == [][\A c \in Cycles : C13_LoopStep(c)]_vars

(***************************************************************************)
(* C14: the running orchestrator never stops: the process does not exit,   *)
(* it does not finish after a cycle, and when a cycle has ended, whatever  *)
(* failed in it, the step that leads to a further cycle is possible.       *)
(***************************************************************************)
C14_CycleRepeats ==
  /\ Running
  /\ sched # "onetime"
  /\ (started < MaxCycles /\ cyc[started].pc = "done") =>
        ENABLED (StartCyclePart \/ ScheduleCron \/ CronTick)

(***************************************************************************)
(* C15: the candidate list of one extraction pass holds no two candidates  *)
(* with the same target.                                                   *)
(***************************************************************************)
C15_NoDuplicateTargets ==
  extDone =>
    \A i, j \in 1..Len(extOut.found) :
      i # j => extOut.found[i].url # extOut.found[j].url

(***************************************************************************)
(* C16: no candidate of an extraction pass has a label or a target that    *)
(* contains .pdf, whichever rule found it.                                 *)
(***************************************************************************)
C16_NoPdfCandidate ==
  extDone =>
    \A i \in 1..Len(extOut.found) :
      /\ ~includes(toLowerCase(extOut.found[i].title), k_pdf)
      /\ ~includes(toLowerCase(extOut.found[i].url), k_pdf)

(***************************************************************************)
(* C17: every candidate handed to the categorizer has a label and a        *)
(* non-empty string as target, and the categorization of the pass does not *)
(* fail.                                                                   *)
(***************************************************************************)
C17_CandidatesWellFormed ==
  extDone =>
    /\ \A i \in 1..Len(extOut.found) :
         Truthy(extOut.found[i].title) /\ Truthy(extOut.found[i].url)
    /\ ~extOut.threw

(***************************************************************************)
(* C18: the file name is the name obtained from the transfer unless that   *)
(* name is empty, 'download' or shorter than 5 characters; then it is      *)
(* <category>[_<version>]<extension>, with _<version> iff the version is   *)
(* not 'unknown' and the extension the first suffix of the table that the  *)
(* target contains, '.bin' when it contains none.                          *)
(***************************************************************************)
C18_SuffixTable(p) ==
  IF p = "index_js" THEN <<n_exe, n_zip, n_msi, n_istapdata, n_bin, n_iso>>
  ELSE <<n_exe, n_zip, n_istapdata>>

C18_Extension(p, url) ==
  LET table == C18_SuffixTable(p)
      hits == { k \in 1..Len(table) : includes(toLowerCase(url), table[k]) }
  IN IF hits = {} THEN n_bin
     ELSE table[CHOOSE k \in hits : \A j \in hits : k <= j]

C18_Synthesized(p, download) ==
  CategoryChars(download.category)
    \o (IF download.version = s_unknown THEN << >> ELSE <<"_">> \o download.version)
    \o C18_Extension(p, download.url)

C18_FileName ==
  nameDone =>
    LET obtained == ObtainedName(prog, nameIn.download, nameIn.suggested)
    IN nameOut.fileName =
         IF obtained = << >> \/ obtained = s_download \/ Len(obtained) < 5
         THEN C18_Synthesized(prog, nameIn.download)
         ELSE obtained

(***************************************************************************)
(* C19: a downloadFile call writes its file to                             *)
(* <root>/<application>/<fileName>, and the filePath of a record stored by *)
(* this run lies in the subdirectory of the record's application.          *)
(***************************************************************************)
C19_PerApplicationPath ==
  /\ \A c \in Cycles :
       cyc[c].pc \in {"dlSaved", "dlWrite"} =>
         cyc[c].filePath =
           <<"downloads", cyc[c].updates[cyc[c].i].appType, cyc[c].fileName>>
  /\ \A key \in DOMAIN metadata :
       metadata[key].downloadedAt >= 1 =>
         metadata[key].filePath = <<"downloads", key[1], metadata[key].fileName>>

(***************************************************************************)
(* C20: a failing transfer is retried; a downloadFile call makes at most   *)
(* maxRetries attempts, and a call whose transfer failed has used all of   *)
(* them and returned false.                                                *)
(***************************************************************************)
C20_BoundedRetry ==
  /\ \A c \in Cycles : cyc[c].retry < maxRetries
  /\ lastCall.attempts <= maxRetries
  /\ lastCall.failedIn = "transfer" =>
        (~lastCall.ret /\ lastCall.attempts = maxRetries)

(***************************************************************************)
(* C21: when a downloadFile call returns true, this.metadata and           *)
(* metadata.json hold under the key <appType>_<category> a record with the *)
(* candidate's version, the measured size (greater than 0), the file name, *)
(* the path and a completion timestamp of this run, whatever record the    *)
(* key had before.                                                         *)
(***************************************************************************)
C21_RecordOf(rec, inst) ==
  /\ rec.version = inst.updates[inst.i].version
  /\ rec.fileSize = inst.size /\ rec.fileSize > 0
  /\ rec.fileName = inst.fileName /\ rec.fileName # << >>
  /\ rec.filePath = inst.filePath
  /\ rec.downloadedAt >= 1

C21_ReturnsTrue(c) ==
  (cyc[c].pc \in InDownloadFile /\ cyc'[c].successCount = cyc[c].successCount + 1) =>
    LET download == cyc[c].updates[cyc[c].i]
        key == MetadataKey(download.appType, download.category)
    IN /\ key \in DOMAIN metadata'
       /\ C21_RecordOf(metadata'[key], cyc[c])
       /\ disk'.state = "ok"
       /\ key \in DOMAIN loadMetadata(disk')
       /\ C21_RecordOf(loadMetadata(disk')[key], cyc[c])

C21_SuccessStoresRecord == [][\A c \in Cycles : C21_ReturnsTrue(c)]_vars

C21_Witness ==
  /\ lastCall.ret
  /\ \E key \in DOMAIN metadata :
       /\ metadata[key].downloadedAt >= 1
       /\ metadata[key].version = v_100
       /\ disk.state = "ok"
       /\ loadMetadata(disk)[key] = metadata[key]
       /\ key \in DOMAIN OldMetadata(prog)
       /\ OldMetadata(prog)[key].filePath \in DOMAIN files
       /\ OldMetadata(prog)[key].filePath # metadata[key].filePath

(***************************************************************************)
(* C22.  loadMetadata never fails: from a metadata.json that is missing or *)
(* whose content is not the text of a mapping, the loaded store is the     *)
(* empty mapping, no later updateMetadata or isNewVersion call throws, and *)
(* every decision taken on the freshly loaded store is 'new' as for a key  *)
(* without a record.                                                       *)
(***************************************************************************)
C22_FreshlyLoaded == lastPut.state \in {"none", "threw"} /\ disk.state # "ok"

C22_CorruptLoadsEmpty ==
  /\ lastPut.state # "threw"
  /\ C22_FreshlyLoaded =>
       /\ metadata = EmptyMetadata
       /\ \A i \in 1..Len(decisions) : ~decisions[i].hadRecord /\ decisions[i].isNew

\* the same for the files that readFile or JSON.parse rejects
C22_UnreadableLoadsEmpty ==
  disk.state \in {"missing", "corrupt"} =>
    /\ lastPut.state # "threw"
    /\ lastPut.state = "none" =>
         /\ metadata = EmptyMetadata
         /\ \A i \in 1..Len(decisions) : ~decisions[i].hadRecord /\ decisions[i].isNew

(***************************************************************************)
(* C23.  updateMetadata(key, record) overwrites only the entry of its key  *)
(* and persists the whole mapping: no step removes a key from              *)
(* this.metadata or changes the record of more than one key, and no        *)
(* completed write of metadata.json removes a key that the file held or    *)
(* leaves the file without a key that this.metadata held when              *)
(* updateMetadata was called.                                              *)
(***************************************************************************)
C23_MemoryFrame ==
  /\ DOMAIN metadata \subseteq DOMAIN metadata'
  /\ \A k1, k2 \in DOMAIN metadata :
       (metadata'[k1] # metadata[k1] /\ metadata'[k2] # metadata[k2]) => k1 = k2

C23_FileFrame ==
  (disk.state = "ok" /\ disk'.state = "ok") =>
    DOMAIN loadMetadata(disk) \subseteq DOMAIN loadMetadata(disk')

C23_NoKeyRemoved == [][C23_MemoryFrame /\ C23_FileFrame]_vars

(***************************************************************************)
(* C24.  When the process ends after downloadFile has saved and verified   *)
(* the file and before updateMetadata has persisted the record, and        *)
(* this.metadata agreed with metadata.json before the call, then the       *)
(* restarted process holds for the key what the store held before the      *)
(* call, decides the candidate as the interrupted cycle did, and a         *)
(* repeated updateMetadata gives the mapping of the uninterrupted call.    *)
(***************************************************************************)
C24_Interrupted ==
  /\ lastPut.state = "writing"
  /\ lastPut'.state = "none"
  /\ lastPut.before = loadMetadata(disk)

C24_SameAfterRestart ==
  LET key == lastPut.key
      before == lastPut.before
      version == lastPut.data.version
  IN /\ key \in DOMAIN metadata' <=> key \in DOMAIN before
     /\ key \in DOMAIN before => metadata'[key] = before[key]
     /\ isNewVersion(metadata', key, version) <=> isNewVersion(before, key, version)
     /\ SetMetadata(metadata', key, lastPut.data) = SetMetadata(before, key, lastPut.data)

C24_AtLeastOnce == [][C24_Interrupted => C24_SameAfterRestart]_vars

\* the same when the interrupted fs.writeFile has left the old file
C24_AtLeastOnceFileIntact ==
  [][(C24_Interrupted /\ disk' = disk) => C24_SameAfterRestart]_vars

(***************************************************************************)
(* C25.  For ista-next a candidate whose label contains                    *)
(* 'installationsdatei' or 'client' and that satisfies no programming-data *)
(* heuristic maps to client; the first such candidate of the list is       *)
(* stored as client with the version extractVersion finds in its target.   *)
(* The candidate 'Installationsdatei ISTA Client' with target              *)
(* '.../ISTAOSS_1.2.3.4.zip' is stored as client in version '1.2.3.4'.     *)
(***************************************************************************)
ClientLabel(download) ==
  \/ includes(toLowerCase(download.title), n_installationsdatei)
  \/ includes(toLowerCase(download.title), n_client)

FirstOf(k, category) ==
  \A j \in 1..(k - 1) : CategoryOf(prog, catIn[j], catApp) # category

StoredWithVersion(download, category, version) ==
  \E i \in 1..Len(catOut) :
    /\ SameCandidate(catOut[i], download)
    /\ catOut[i].category = category
    /\ catOut[i].version = version

C25_ClientScenario ==
  (catDone /\ catApp = "ista-next") =>
    \A k \in 1..Len(catIn) :
      /\ (ClientLabel(catIn[k]) /\ ~ProgrammingDataHeuristic(catIn[k])) =>
           /\ MapsTo(k, "client")
           /\ FirstOf(k, "client") =>
                StoredWithVersion(catIn[k], "client", extractVersion(catIn[k].url))
      /\ (catIn[k] = Candidate(t_client, u_client) /\ FirstOf(k, "client")) =>
           StoredWithVersion(catIn[k], "client", <<"1", ".", "2", ".", "3", ".", "4">>)

\* the candidate of the scenario stored after a candidate of another category
C25_Witness ==
  /\ catDone /\ catApp = "ista-next"
  /\ Len(catIn) >= 2
  /\ catIn[1] = Candidate(t_icom, u_icom)
  /\ catIn[2] = Candidate(t_client, u_client)
  /\ StoredWithVersion(catIn[2], "client", <<"1", ".", "2", ".", "3", ".", "4">>)

(***************************************************************************)
(* C26.  For ista-next a candidate whose label contains 'icom' and         *)
(* 'firmware' and that satisfies neither the programming-data rule nor the *)
(* client rule of the cascade maps to icom_firmware; the first such        *)
(* candidate of the list is stored as icom_firmware with the version       *)
(* extractVersion finds in its target.  The candidate 'ICOM Next Firmware' *)
(* with target '.../ICOM-Next-FW-4.5.6.bin' is stored as icom_firmware in  *)
(* version '4.5.6'.                                                        *)
(***************************************************************************)
IcomLabel(download) ==
  /\ includes(toLowerCase(download.title), n_icom)
  /\ includes(toLowerCase(download.title), n_firmware)

\* the rules the two cascades test before the firmware rule
HigherPriorityRule(download) ==
  LET title == toLowerCase(download.title)
      url == toLowerCase(download.url)
  IN \/ includes(title, n_programmierdaten)
     \/ includes(url, n_programmingdata)
     \/ includes(url, n_ISTAOSS_ProgrammingData_)
     \/ includes(title, n_installationsdatei)
     \/ includes(title, n_client)
     \/ includes(url, n_istaoss)
     \/ includes(url, n_client)

C26_IcomScenario ==
  (catDone /\ catApp = "ista-next") =>
    \A k \in 1..Len(catIn) :
      /\ (IcomLabel(catIn[k]) /\ ~HigherPriorityRule(catIn[k])) =>
           /\ MapsTo(k, "icom_firmware")
           /\ FirstOf(k, "icom_firmware") =>
                StoredWithVersion(catIn[k], "icom_firmware", extractVersion(catIn[k].url))
      /\ (catIn[k] = Candidate(t_icom, u_icom) /\ FirstOf(k, "icom_firmware")) =>
           StoredWithVersion(catIn[k], "icom_firmware", <<"4", ".", "5", ".", "6">>)

\* the candidate of the scenario stored after a client candidate
C26_Witness ==
  /\ catDone /\ catApp = "ista-next"
  /\ Len(catIn) >= 2
  /\ catIn[1] = Candidate(t_client, u_client)
  /\ catIn[2] = Candidate(t_icom, u_icom)
  /\ StoredWithVersion(catIn[2], "icom_firmware", <<"4", ".", "5", ".", "6">>)

(***************************************************************************)
(* C27.  When downloadFile returns false, this.metadata does not hold the  *)
(* record that the failed call built for its key: the entry is the one     *)
(* from before the call, whichever step failed, the write of metadata.json *)
(* included, and the candidate is decided as before the call.              *)
(***************************************************************************)
C27_ReturnsFalse(c) ==
  cyc[c].pc \in InDownloadFile /\ cyc'[c].failCount = cyc[c].failCount + 1

C27_HoldsRecordOfCall(c) ==
  LET inst == cyc[c]
      download == inst.updates[inst.i]
      key == MetadataKey(download.appType, download.category)
  IN /\ key \in DOMAIN metadata'
     /\ metadata'[key] = UpdateRecord(download, inst.fileName, inst.filePath, inst.size, c)
     /\ ~isNewVersion(metadata', key, download.version)

C27_FailureLeavesMemory ==
  [][\A c \in Cycles : C27_ReturnsFalse(c) => ~C27_HoldsRecordOfCall(c)]_vars

\* the same for the calls that fail before updateMetadata is called
C27_FailureBeforeUpdate ==
  [][\A c \in Cycles :
       (C27_ReturnsFalse(c) /\ lastCall'.failedIn # "write") => ~C27_HoldsRecordOfCall(c)]_vars

(***************************************************************************)
(* C28.  downloadFile never removes a file that a record of the store      *)
(* refers to: in every step that removes a file, no record of              *)
(* this.metadata and no record of metadata.json holds the path of the      *)
(* removed file.                                                           *)
(***************************************************************************)
C28_Referenced(path, m) == \E key \in DOMAIN m : m[key].filePath = path

C28_Removed(path) == path \in DOMAIN files /\ path \notin DOMAIN files'

C28_RemovesOnlyOwnFile ==
  [][\A path \in DOMAIN files :
       C28_Removed(path) =>
         /\ ~C28_Referenced(path, metadata)
         /\ ~C28_Referenced(path, loadMetadata(disk))]_vars

\* the same for the records of metadata.json alone
C28_RemovesNoPersistedFile ==
  [][\A path \in DOMAIN files :
       C28_Removed(path) => ~C28_Referenced(path, loadMetadata(disk))]_vars

(***************************************************************************)
(* C29.  In src/unnamed/part_000 every checkForUpdates call after the      *)
(* first starts with a browser launched in the same iteration and with     *)
(* isLoggedIn cleared; while a cycle navigates, extracts or downloads, the *)
(* browser is open and the login of that cycle has succeeded; this also    *)
(* holds for the cycle after one whose relaunch failed.                    *)
(***************************************************************************)
C29_CheckStarts(c) == cyc[c].pc = "idle" /\ cyc'[c].pc = "login"

C29_Checking(c) == cyc[c].pc \notin {"idle", "login", "done"}

C29_FreshSession ==
  [][prog = "part_000" =>
       \A c \in Cycles :
         /\ C29_CheckStarts(c) => (browser' = "open" /\ ~isLoggedIn')
         /\ cyc'[c].pc = "login" => browser' = "open"
         /\ C29_Checking(c)' => (browser' = "open" /\ isLoggedIn')]_vars

\* a cycle checks the applications after the relaunch of the cycle before
\* it has failed
C29_Witness ==
  /\ prog = "part_000"
  /\ \E c \in Cycles \ {1} :
       /\ c + 1 \in Cycles
       /\ cyc[c].abort = "launch"
       /\ cyc[c + 1].pc = "extract"
       /\ cyc[c + 1].app = 2
       /\ isLoggedIn
       /\ browser = "open"

(***************************************************************************)
(* C30.  In src/index.js a getDownloads call that finds the page           *)
(* redirected to the login host returns no downloads and clears            *)
(* isLoggedIn, and no getDownloads call of a cycle is made while           *)
(* isLoggedIn is cleared.                                                  *)
(***************************************************************************)
\* getDownloads of cycle c returns in this step
C30_GetDownloads(c) ==
  /\ cyc[c].pc = "extract"
  /\ cyc'[c] # cyc[c]
  /\ cyc'[c].abort # "fatal"

C30_Expired(c) == C30_GetDownloads(c) /\ isLoggedIn /\ ~isLoggedIn'

C30_ReturnsNothing(c) ==
  /\ decisions' = << >>
  /\ cyc'[c].updates = cyc[c].updates
  /\ cyc'[c].extracted = cyc[c].extracted

C30_ExpiredSession ==
  [][prog = "index_js" =>
       \A c \in Cycles :
         /\ C30_Expired(c) => C30_ReturnsNothing(c)
         /\ C30_GetDownloads(c) => isLoggedIn]_vars

\* the part about the call that finds the redirect
C30_ExpiredReturnsNothing ==
  [][prog = "index_js" => \A c \in Cycles : C30_Expired(c) => C30_ReturnsNothing(c)]_vars

====
